---- MODULE Spec2Model ----
(***************************************************************************)
(* Model of the OpenClaw memory-memu plugin (index.ts): the agent_end      *)
(* handler (capture, then the periodic-cleanup gate), the process-wide     *)
(* Maintenance Clock lastCleanupTime, the Engine Gateway callMemu as seen  *)
(* by its callers, and the pure functions the handler applies to a         *)
(* transcript (message flattening, turn selection, rendering,              *)
(* stripMemoryTags, shouldCapture).                                        *)
(*                                                                         *)
(* A JavaScript string is a sequence of one-character strings (one element *)
(* per UTF-16 code unit; a Hangul syllable is written "U+XXXX").           *)
(***************************************************************************)
EXTENDS Integers, Sequences, FiniteSets, TLC

VARIABLES
    cfg,              \* the plugin configuration, fixed at register()
    clock,            \* the value Date.now() returns, in ms since the epoch
    lastCleanupTime,  \* the module-level Maintenance Clock
    hs,               \* the agent_end handler invocations in flight, by slot
    finished,         \* the agent_end handler invocation that ended last
    budget,           \* number of agent_end events the host may still deliver
    ticks,            \* number of clock advances so far
    cleanupLog,       \* history: the periodic cleanup commands issued, each
                      \* with the Date.now() of its gate check and its result
    probe             \* a call of a function of the module on its own: its
                      \* input and the values it returned so far

vars == <<cfg, clock, lastCleanupTime, hs, finished, budget, ticks, cleanupLog, probe>>

-----------------------------------------------------------------------------
(* Bounds of the model. *)

MaxEvents == 3
MaxOverlap == 2
MaxTicks == 2
MaxLen == 3
MaxWindowLen == 5
MaxPieces == 5
StartHours == 100
TickMinutes == 60

-----------------------------------------------------------------------------
(* JavaScript strings. *)

Max(a, b) == IF a > b THEN a ELSE b
Min(a, b) == IF a < b THEN a ELSE b

\* String.prototype.slice(from, to) with 0-based, end-exclusive indices
Slice(s, from, to) ==
    LET f == Min(Max(from, 0), Len(s))
        t == Min(Max(to, 0), Len(s))
    IN  IF t <= f THEN <<>> ELSE SubSeq(s, f + 1, t)

\* the characters \s and trim() treat as white space (those the model uses)
IsSpace(c) == c \in {" ", "\n", "\t"}

\* the number of white-space characters s starts with and ends with
LeadingSpaces(s) ==
    CHOOSE n \in 0..Len(s) :
        /\ \A k \in 1..n : IsSpace(s[k])
        /\ (n = Len(s) \/ ~IsSpace(s[n + 1]))

TrailingSpaces(s) ==
    CHOOSE n \in 0..Len(s) :
        /\ \A k \in 1..n : IsSpace(s[Len(s) - k + 1])
        /\ (n = Len(s) \/ ~IsSpace(s[Len(s) - n]))

TrimStart(s) == SubSeq(s, LeadingSpaces(s) + 1, Len(s))

TrimEnd(s) == SubSeq(s, 1, Len(s) - TrailingSpaces(s))

\* String.prototype.trim()
Trim(s) == TrimEnd(TrimStart(s))

UpperLetters == <<"A","B","C","D","E","F","G","H","I","J","K","L","M",
                  "N","O","P","Q","R","S","T","U","V","W","X","Y","Z">>
LowerLetters == <<"a","b","c","d","e","f","g","h","i","j","k","l","m",
                  "n","o","p","q","r","s","t","u","v","w","x","y","z">>

\* case folding of the /i flag
LowerOf == [i \in 1..26 |-> LowerLetters[i]]
UpperSet == {UpperLetters[i] : i \in 1..26}
UpperIndex == [c \in UpperSet |-> CHOOSE i \in 1..26 : UpperLetters[i] = c]

Lower(c) == IF c \in UpperSet THEN LowerOf[UpperIndex[c]] ELSE c

\* does the literal lit occur in s starting at 1-based position i
MatchAt(s, i, lit, ci) ==
    /\ i >= 1
    /\ i + Len(lit) - 1 <= Len(s)
    /\ \A k \in 1..Len(lit) :
          IF ci THEN Lower(s[i + k - 1]) = Lower(lit[k])
                ELSE s[i + k - 1] = lit[k]

\* the least position >= from where lit occurs in s, or 0
FindFrom(s, from, lit, ci) ==
    LET hits == {i \in Max(from, 1)..(Len(s) - Len(lit) + 1) : MatchAt(s, i, lit, ci)}
    IN  IF hits = {} THEN 0 ELSE CHOOSE i \in hits : \A j \in hits : i <= j

Contains(s, lit, ci) == \E i \in 1..(Len(s) - Len(lit) + 1) : MatchAt(s, i, lit, ci)

StartsWith(s, lit) == MatchAt(s, 1, lit, FALSE)

RECURSIVE Join(_, _)
Join(parts, sep) ==
    IF parts = <<>> THEN <<>>
    ELSE IF Len(parts) = 1 THEN parts[1]
    ELSE parts[1] \o sep \o Join(Tail(parts), sep)

-----------------------------------------------------------------------------
(* String literals of the source, one character per element ("U+0060" is *)
(* the backtick).                                                        *)

OpenTag ==
    <<"<", "r", "e", "l", "e", "v", "a", "n", "t", "-", "m", "e", "m", "o",
      "r", "i", "e", "s", ">">>
CloseTag ==
    <<"<", "/", "r", "e", "l", "e", "v", "a", "n", "t", "-", "m", "e", "m",
      "o", "r", "i", "e", "s", ">">>
RecallHeader ==
    <<"<", "r", "e", "l", "e", "v", "a", "n", "t", "-", "m", "e", "m", "o",
      "r", "i", "e", "s", ">", "\n", "U+AD00", "U+B828", " ", "U+AE30",
      "U+C5B5", ":", "\n">>
RecallFooter ==
    <<"\n", "<", "/", "r", "e", "l", "e", "v", "a", "n", "t", "-", "m",
      "e", "m", "o", "r", "i", "e", "s", ">">>
ItemOpen ==
    <<"-", " ", "[">>
ItemClose ==
    <<"]", " ">>
UserLabel ==
    <<"U", "s", "e", "r">>
AssistantLabel ==
    <<"A", "s", "s", "i", "s", "t", "a", "n", "t">>
ContextOpen ==
    <<"(", "U+C774", "U+C804", " ", "U+B9E5", "U+B77D", ":", "\n">>
ContextClose ==
    <<")", "\n", "\n">>
Ellipsis ==
    <<".", ".", ".">>
ColonSpace ==
    <<":", " ">>
CodeFence ==
    <<"U+0060", "U+0060", "U+0060">>
HeartbeatWord ==
    <<"H", "E", "A", "R", "T", "B", "E", "A", "T">>
HeartbeatOk ==
    <<"H", "E", "A", "R", "T", "B", "E", "A", "T", "_", "O", "K">>
Noise01 ==
    <<"I", " ", "d", "o", "n", "'", "t", " ", "h", "a", "v", "e", " ", "a",
      "c", "c", "e", "s", "s", " ", "t", "o">>
Noise02 ==
    <<"I", " ", "c", "a", "n", "n", "o", "t", " ", "s", "u", "m", "m", "a",
      "r", "i", "z", "e">>
Noise03 ==
    <<"I", " ", "c", "a", "n", "n", "o", "t", " ", "p", "r", "o", "c", "e",
      "s", "s">>
Noise04 ==
    <<"I", " ", "c", "a", "n", "n", "o", "t", " ", "a", "c", "c", "e", "s",
      "s">>
Noise05 ==
    <<"I", " ", "c", "a", "n", "n", "o", "t", " ", "r", "e", "a", "d">>
Noise06 ==
    <<"N", "O", "_", "R", "E", "P", "L", "Y">>
Noise07 ==
    <<"H", "E", "A", "R", "T", "B", "E", "A", "T", "_", "O", "K">>
Noise08 ==
    <<"[", "M", "I", "S", "S", "I", "N", "G", "]">>
Noise09 ==
    <<"G", "a", "t", "e", "w", "a", "y", "R", "e", "s", "t", "a", "r", "t">>
Noise10 ==
    <<"E", "r", "r", "o", "r", ":">>
Noise11 ==
    <<"e", "r", "r", "o", "r", ":">>
Noise12 ==
    <<"E", "N", "O", "E", "N", "T">>
Noise13 ==
    <<"E", "T", "I", "M", "E", "D", "O", "U", "T">>
Noise14 ==
    <<"E", "C", "O", "N", "N", "R", "E", "F", "U", "S", "E", "D">>
Noise15 ==
    <<"I", " ", "c", "a", "n", "n", "o", "t", " ", "f", "u", "l", "f", "i",
      "l", "l">>
Noise16 ==
    <<"I", "'", "m", " ", "u", "n", "a", "b", "l", "e", " ", "t", "o">>
Noise17 ==
    <<"I", " ", "d", "o", "n", "'", "t", " ", "h", "a", "v", "e", " ", "t",
      "h", "e", " ", "a", "b", "i", "l", "i", "t", "y">>
Noise18 ==
    <<"[", "c", "o", "m", "p", "a", "c", "t", "e", "d", ":">>
Noise19 ==
    <<"t", "r", "u", "n", "c", "a", "t", "e", "d", ":">>

\* a pattern list without the transport error pattern of its seventh line
noisePatternsWithoutErrors ==
    <<[lit |-> Noise01, ci |-> TRUE],
      [lit |-> Noise02, ci |-> TRUE],
      [lit |-> Noise03, ci |-> TRUE],
      [lit |-> Noise04, ci |-> TRUE],
      [lit |-> Noise05, ci |-> TRUE],
      [lit |-> Noise06, ci |-> FALSE],
      [lit |-> Noise07, ci |-> FALSE],
      [lit |-> Noise08, ci |-> FALSE],
      [lit |-> Noise09, ci |-> FALSE],
      [lit |-> Noise15, ci |-> TRUE],
      [lit |-> Noise16, ci |-> TRUE],
      [lit |-> Noise17, ci |-> TRUE],
      [lit |-> Noise18, ci |-> TRUE],
      [lit |-> Noise19, ci |-> TRUE]>>

\* the noise patterns of shouldCapture, alternations spelled out; ci is the /i flag
noisePatterns ==
    <<[lit |-> Noise01, ci |-> TRUE],
      [lit |-> Noise02, ci |-> TRUE],
      [lit |-> Noise03, ci |-> TRUE],
      [lit |-> Noise04, ci |-> TRUE],
      [lit |-> Noise05, ci |-> TRUE],
      [lit |-> Noise06, ci |-> FALSE],
      [lit |-> Noise07, ci |-> FALSE],
      [lit |-> Noise08, ci |-> FALSE],
      [lit |-> Noise09, ci |-> FALSE],
      [lit |-> Noise10, ci |-> FALSE],
      [lit |-> Noise11, ci |-> FALSE],
      [lit |-> Noise12, ci |-> FALSE],
      [lit |-> Noise13, ci |-> FALSE],
      [lit |-> Noise14, ci |-> FALSE],
      [lit |-> Noise15, ci |-> TRUE],
      [lit |-> Noise16, ci |-> TRUE],
      [lit |-> Noise17, ci |-> TRUE],
      [lit |-> Noise18, ci |-> TRUE],
      [lit |-> Noise19, ci |-> TRUE]>>

-----------------------------------------------------------------------------
(* stripMemoryTags and shouldCapture. *)

\* text.replace(/<relevant-memories>[\s\S]*?<\/relevant-memories>\s*/g, ""):
\* leftmost open marker, the nearest close marker after it, and the white
\* space that follows; then the scan resumes behind the match
RECURSIVE ReplaceMemoryBlocks(_)
ReplaceMemoryBlocks(s) ==
    LET o == FindFrom(s, 1, OpenTag, FALSE)
        c == IF o = 0 THEN 0 ELSE FindFrom(s, o + Len(OpenTag), CloseTag, FALSE)
    IN  IF o = 0 \/ c = 0 THEN s
        ELSE SubSeq(s, 1, o - 1)
                \o ReplaceMemoryBlocks(TrimStart(SubSeq(s, c + Len(CloseTag), Len(s))))

stripMemoryTags(text) == Trim(ReplaceMemoryBlocks(text))

\* /^\s*$/.test(s)
IsBlank(s) == \A i \in 1..Len(s) : IsSpace(s[i])

\* is position i (1-based) the start of a line, for ^ under the m flag
LineStart(s, i) == i = 1 \/ s[i - 1] = "\n"

\* the length of the match of /^(User|Assistant):\s*$/m at position i, or 0:
\* the label and colon, then the longest run of white space that ends at the
\* end of the text or just before a line break
EmptyRoleMatch(s, i) ==
    LET lab == IF MatchAt(s, i, UserLabel \o <<":">>, FALSE) THEN Len(UserLabel) + 1
               ELSE IF MatchAt(s, i, AssistantLabel \o <<":">>, FALSE)
                    THEN Len(AssistantLabel) + 1
               ELSE 0
        from == i + lab
        run  == CHOOSE n \in 0..(Len(s) - from + 1) :
                    /\ \A k \in 0..(n - 1) : IsSpace(s[from + k])
                    /\ (from + n > Len(s) \/ ~IsSpace(s[from + n]))
        ends == {n \in 0..run : from + n > Len(s) \/ s[from + n] = "\n"}
    IN  IF lab = 0 \/ ~LineStart(s, i) \/ ends = {} THEN 0
        ELSE lab + (CHOOSE n \in ends : \A m \in ends : m <= n)

\* stripped.replace(/^(User|Assistant):\s*$/gm, ""): the text from position
\* i on, without the matches
RECURSIVE RemoveEmptyRoles(_, _)
RemoveEmptyRoles(s, i) ==
    LET hits == {j \in i..Len(s) : EmptyRoleMatch(s, j) > 0}
    IN  IF hits = {} THEN SubSeq(s, i, Len(s))
        ELSE LET j == CHOOSE x \in hits : \A y \in hits : x <= y
             IN  SubSeq(s, i, j - 1) \o RemoveEmptyRoles(s, j + EmptyRoleMatch(s, j))

\* /^(User:.*HEARTBEAT.*\n?Assistant:.*HEARTBEAT_OK)/is.test(s)
HeartbeatOnly(s) ==
    LET u == UserLabel \o <<":">>
        a == AssistantLabel \o <<":">>
        p == FindFrom(s, Len(u) + 1, HeartbeatWord, TRUE)
        q == IF p = 0 THEN 0 ELSE FindFrom(s, p + Len(HeartbeatWord), a, TRUE)
        r == IF q = 0 THEN 0 ELSE FindFrom(s, q + Len(a), HeartbeatOk, TRUE)
    IN  MatchAt(s, 1, u, TRUE) /\ r # 0

MinRawLength == 20
MinStrippedLength == 50

\* a filter that stops after the length and white-space checks
lengthChecksOnly(text) ==
    /\ Len(text) >= MinRawLength
    /\ Len(stripMemoryTags(text)) >= MinStrippedLength
    /\ ~IsBlank(stripMemoryTags(text))

shouldCapture(text) ==
    IF Len(text) < MinRawLength THEN FALSE
    ELSE IF StartsWith(text, <<"{">>) \/ StartsWith(text, CodeFence) THEN FALSE
    ELSE LET stripped == stripMemoryTags(text)
         IN  IF Len(stripped) < MinStrippedLength THEN FALSE
             ELSE IF IsBlank(stripped) THEN FALSE
             ELSE IF \E k \in 1..Len(noisePatterns) :
                        Contains(stripped, noisePatterns[k].lit, noisePatterns[k].ci)
                  THEN FALSE
             ELSE IF Len(Trim(RemoveEmptyRoles(stripped, 1))) < MinStrippedLength THEN FALSE
             ELSE IF HeartbeatOnly(stripped) THEN FALSE
             ELSE TRUE

-----------------------------------------------------------------------------
(* Transcript entries, as far as the handler inspects them.                *)
(*   entry   : null | a primitive (string, number) | an object with a role *)
(*             ("none" when it has no role property) and a content         *)
(*   content : a string | an array of blocks | anything else ("other")     *)
(*   block   : null | a primitive | an object with a type and maybe a text *)

NullEntry == [kind |-> "null"]
PrimEntry == [kind |-> "prim"]
Obj(role, content) == [kind |-> "object", role |-> role, content |-> content]

StringContent(s) == [kind |-> "string", text |-> s, blocks |-> <<>>]
ArrayContent(bs) == [kind |-> "array", text |-> <<>>, blocks |-> bs]
OtherContent == [kind |-> "other", text |-> <<>>, blocks |-> <<>>]

NullBlock == [kind |-> "null", type |-> "", hasText |-> FALSE, text |-> <<>>]
PrimBlock == [kind |-> "prim", type |-> "", hasText |-> FALSE, text |-> <<>>]
TextBlock(s) == [kind |-> "object", type |-> "text", hasText |-> TRUE, text |-> s]
\* a block of another type, or a text block whose text is not a string
Block(type) == [kind |-> "object", type |-> type, hasText |-> FALSE, text |-> <<>>]
\* a block of another type that has a string text
TypedBlock(type, s) == [kind |-> "object", type |-> type, hasText |-> TRUE, text |-> s]

\* event.messages is absent (hasMessages = FALSE) or an array
Event(success, hasMessages, messages) ==
    [success |-> success, hasMessages |-> hasMessages, messages |-> messages]

ImageTypes == {"image", "image_url", "image_file"}

\* the debug loop before the try block: reading m.content of null and b.type
\* of a null block throw a TypeError; an image block is logged with
\* appendFileSync, which throws when the log cannot be written (fsOk = FALSE)
DebugScanThrows(ev, fsOk) ==
    LET msgs == IF ev.hasMessages THEN ev.messages ELSE <<>>
    IN  \E i \in 1..Len(msgs) :
           \/ msgs[i].kind = "null"
           \/ /\ msgs[i].kind = "object"
              /\ msgs[i].content.kind = "array"
              /\ \E j \in 1..Len(msgs[i].content.blocks) :
                    LET b == msgs[i].content.blocks[j]
                    IN  \/ b.kind = "null"
                        \/ b.kind = "object" /\ b.type \in ImageTypes /\ ~fsOk

\* if (!event.success || !event.messages || event.messages.length === 0) return
\* a guard that does not look at event.success
SkipsCaptureUnlessEmpty(ev) == ~ev.hasMessages \/ Len(ev.messages) = 0

SkipsCapture(ev) == ~ev.success \/ ~ev.hasMessages \/ Len(ev.messages) = 0

\* a flattening that takes the text of every block that has one
RECURSIVE FlattenAnyBlocks(_)
FlattenAnyBlocks(bs) ==
    IF bs = <<>> THEN <<>>
    ELSE (IF Head(bs).kind = "object" /\ Head(bs).hasText THEN Head(bs).text ELSE <<>>)
         \o FlattenAnyBlocks(Tail(bs))

\* the concatenation of the text of the text-typed blocks with a string text
RECURSIVE FlattenBlocks(_)
FlattenBlocks(bs) ==
    IF bs = <<>> THEN <<>>
    ELSE (IF Head(bs).kind = "object" /\ Head(bs).type = "text" /\ Head(bs).hasText
          THEN Head(bs).text ELSE <<>>)
         \o FlattenBlocks(Tail(bs))

FlattenContent(c) ==
    IF c.kind = "string" THEN c.text
    ELSE IF c.kind = "array" THEN FlattenBlocks(c.blocks)
    ELSE <<>>

\* the ParsedMessage list: objects with role user or assistant and a content
\* that is not empty after trim(), in transcript order, content trimmed
RECURSIVE ParseMessages(_)
ParseMessages(entries) ==
    IF entries = <<>> THEN <<>>
    ELSE LET msg == Head(entries)
             rest == ParseMessages(Tail(entries))
         IN  IF msg.kind # "object" THEN rest
             ELSE IF msg.role # "user" /\ msg.role # "assistant" THEN rest
             ELSE LET content == FlattenContent(msg.content)
                  IN  IF Trim(content) # <<>>
                      THEN <<[role |-> msg.role, content |-> Trim(content)]>> \o rest
                      ELSE rest

\* for (let i = from; i >= 0; i--) if (messages[i].role === role) return i;
\* return -1      (0-based indices, as in the source)
RECURSIVE ScanBack(_, _, _)
ScanBack(messages, from, role) ==
    IF from < 0 THEN -1
    ELSE IF messages[from + 1].role = role THEN from
    ELSE ScanBack(messages, from - 1, role)

\* a scan that stops at the first assistant message instead of the last
findFirstAssistant(messages) ==
    IF \E i \in 1..Len(messages) : messages[i].role = "assistant"
    THEN (CHOOSE i \in 1..Len(messages) :
             /\ messages[i].role = "assistant"
             /\ \A j \in 1..(i - 1) : messages[j].role # "assistant") - 1
    ELSE -1

findLastAssistant(messages) == ScanBack(messages, Len(messages) - 1, "assistant")

\* a scan for the user message that starts at the end of the list instead
\* of just before the last assistant message
findLastUserAnywhere(messages, lastAssistantIdx) ==
    ScanBack(messages, Len(messages) - 1, "user")

findLastUser(messages, lastAssistantIdx) == ScanBack(messages, lastAssistantIdx - 1, "user")

RoleLabel(role) == IF role = "user" THEN UserLabel ELSE AssistantLabel

PreviewLength == 100

\* messages.slice(Math.max(0, lastUserIdx - 2), lastUserIdx)
ContextWindowSize == 2

\* a window that reaches three messages back
contextOfThree(messages, lastUserIdx) ==
    SubSeq(messages, Max(0, lastUserIdx - 3) + 1, lastUserIdx)

contextMessages(messages, lastUserIdx) ==
    SubSeq(messages, Max(0, lastUserIdx - ContextWindowSize) + 1, lastUserIdx)

renderContext(ctx) ==
    IF Len(ctx) > 0
    THEN ContextOpen
         \o Join([i \in 1..Len(ctx) |->
                    RoleLabel(ctx[i].role) \o ColonSpace
                       \o Slice(ctx[i].content, 0, PreviewLength) \o Ellipsis],
                 <<"\n">>)
         \o ContextClose
    ELSE <<>>

\* a rendering of the Turn without role labels
renderTurnBare(turn) ==
    Join([i \in 1..Len(turn) |-> turn[i].content], <<"\n">>)

\* a rendering of the Turn that cuts its contents like those of the context
renderTurnPreview(turn) ==
    Join([i \in 1..Len(turn) |->
            RoleLabel(turn[i].role) \o ColonSpace \o Slice(turn[i].content, 0, PreviewLength)],
         <<"\n">>)

renderTurn(turn) ==
    Join([i \in 1..Len(turn) |-> RoleLabel(turn[i].role) \o ColonSpace \o turn[i].content],
         <<"\n">>)

\* the prependContext the before_agent_start handler returns for the items
\* of a search result: one "- [type] summary" line per item between the
\* recall markers
renderMemoryItem(item) == ItemOpen \o item.type \o ItemClose \o item.summary

\* a context that renders the first item only
prependContextFirstOnly(items) ==
    RecallHeader \o renderMemoryItem(items[1]) \o RecallFooter

prependContext(items) ==
    RecallHeader
    \o Join([i \in 1..Len(items) |-> renderMemoryItem(items[i])], <<"\n">>)
    \o RecallFooter

\* the synchronous part of the capture try block, up to the store call:
\* what it decides ("abstain", "rejected" or "store") and what it computed
captureStep(ev) ==
    LET messages == ParseMessages(ev.messages)
        a == IF Len(messages) < 2 THEN -1 ELSE findLastAssistant(messages)
        u == IF a < 0 THEN -1 ELSE findLastUser(messages, a)
        none == [decision |-> "abstain", messages |-> messages,
                 lastAssistantIdx |-> a, lastUserIdx |-> u,
                 context |-> <<>>, content |-> <<>>]
    IN  IF Len(messages) < 2 \/ a < 0 \/ u < 0 THEN none
        ELSE LET currentTurn == <<messages[u + 1], messages[a + 1]>>
                 ctx == contextMessages(messages, u)
                 content == stripMemoryTags(renderContext(ctx) \o renderTurn(currentTurn))
             IN  [decision |-> IF shouldCapture(content) THEN "store" ELSE "rejected",
                  messages |-> messages,
                  lastAssistantIdx |-> a, lastUserIdx |-> u,
                  context |-> ctx, content |-> content]

-----------------------------------------------------------------------------
(* The Engine Gateway as its callers see it.                               *)

\* what the spawned process does: spawn() throws synchronously inside the
\* promise executor ("throws"), the process emits "error", or it closes
\* with an exit code, its stdout and its stderr
SpawnThrows == [kind |-> "throws", code |-> 0, stdout |-> <<>>, stderr |-> <<>>]
SpawnError(message) == [kind |-> "error", code |-> 0, stdout |-> <<>>, stderr |-> message]
Close(code, stdout, stderr) ==
    [kind |-> "close", code |-> code, stdout |-> stdout, stderr |-> stderr]

\* JSON values, as far as a caller reads them: null, or an object with the
\* properties error, success, skipped
\* the items property of a value: absent, an array of items (an item is
\* null or an object with a type and a summary), or a value that is no array
NoItems == [kind |-> "absent", list |-> <<>>]
ItemList(list) == [kind |-> "array", list |-> list]
NotAList == [kind |-> "other", list |-> <<>>]
Item(type, summary) == [isNull |-> FALSE, type |-> type, summary |-> summary]
NullItem == [isNull |-> TRUE, type |-> <<>>, summary |-> <<>>]

JsonNull == [type |-> "null", hasError |-> FALSE, error |-> <<>>,
             success |-> FALSE, skipped |-> FALSE, items |-> NoItems]
JsonNumber == [type |-> "number", hasError |-> FALSE, error |-> <<>>,
               success |-> FALSE, skipped |-> FALSE, items |-> NoItems]
JsonObject(hasError, error, success, skipped) ==
    [type |-> "object", hasError |-> hasError, error |-> error,
     success |-> success, skipped |-> skipped, items |-> NoItems]
WithItems(value, items) == [value EXCEPT !.items = items]
ErrorResult(message) == JsonObject(TRUE, message, FALSE, FALSE)

OutSuccess == <<"{", "\"", "s", "u", "c", "c", "e", "s", "s", "\"", ":", "t", "r", "u", "e", "}">>
OutSkipped == <<"{", "\"", "s", "k", "i", "p", "p", "e", "d", "\"", ":", "t", "r", "u", "e", "}">>
OutError == <<"{", "\"", "e", "r", "r", "o", "r", "\"", ":", "\"", "b", "o", "o", "m", "\"", "}">>
OutNull == <<"n", "u", "l", "l">>
OutNotJson == <<"n", "o", "t", " ", "j", "s", "o", "n">>
MsgBoom == <<"b", "o", "o", "m">>
MsgEnoent == <<"s", "p", "a", "w", "n", " ", "p", "y", "t", "h", "o", "n", "3", " ", "E", "N", "O", "E", "N", "T">>
MsgExited == <<"P", "r", "o", "c", "e", "s", "s", " ", "e", "x", "i", "t", "e", "d", " ", "w", "i", "t", "h", " ", "c", "o", "d", "e", " ">>
MsgParse == <<"F", "a", "i", "l", "e", "d", " ", "t", "o", " ", "p", "a", "r", "s", "e", " ", "o", "u", "t", "p", "u", "t", ":", " ">>

TypeFact ==
    <<"f", "a", "c", "t">>
TypeEvent ==
    <<"e", "v", "e", "n", "t">>
TypePreference ==
    <<"p", "r", "e", "f", "e", "r", "e", "n", "c", "e">>
SummaryDog ==
    <<"M", "o", "k", "a", " ", "i", "s", " ", "a", " ", "d", "o", "g">>
SummaryTrip ==
    <<"t", "r", "i", "p", " ", "i", "n", " ", "M", "a", "y">>
SummaryTea ==
    <<"l", "i", "k", "e", "s", " ", "t", "e", "a">>
ItemDog == Item(TypeFact, SummaryDog)
ItemTrip == Item(TypeEvent, SummaryTrip)
ItemTea == Item(TypePreference, SummaryTea)

\* outputs of the search command
OutItemsOne ==
    <<"{", "\"", "i", "t", "e", "m", "s", "\"", ":", "[", "{", "\"", "i",
      "d", "\"", ":", "\"", "a", "1", "\"", ",", "\"", "t", "y", "p", "e",
      "\"", ":", "\"", "f", "a", "c", "t", "\"", ",", "\"", "s", "u", "m",
      "m", "a", "r", "y", "\"", ":", "\"", "M", "o", "k", "a", " ", "i",
      "s", " ", "a", " ", "d", "o", "g", "\"", "}", "]", "}">>
OutItemsThree ==
    <<"{", "\"", "i", "t", "e", "m", "s", "\"", ":", "[", "{", "\"", "i",
      "d", "\"", ":", "\"", "b", "2", "\"", ",", "\"", "t", "y", "p", "e",
      "\"", ":", "\"", "e", "v", "e", "n", "t", "\"", ",", "\"", "s", "u",
      "m", "m", "a", "r", "y", "\"", ":", "\"", "t", "r", "i", "p", " ",
      "i", "n", " ", "M", "a", "y", "\"", "}", ",", "{", "\"", "i", "d",
      "\"", ":", "\"", "a", "1", "\"", ",", "\"", "t", "y", "p", "e", "\"",
      ":", "\"", "f", "a", "c", "t", "\"", ",", "\"", "s", "u", "m", "m",
      "a", "r", "y", "\"", ":", "\"", "M", "o", "k", "a", " ", "i", "s",
      " ", "a", " ", "d", "o", "g", "\"", "}", ",", "{", "\"", "i", "d",
      "\"", ":", "\"", "c", "3", "\"", ",", "\"", "t", "y", "p", "e", "\"",
      ":", "\"", "p", "r", "e", "f", "e", "r", "e", "n", "c", "e", "\"",
      ",", "\"", "s", "u", "m", "m", "a", "r", "y", "\"", ":", "\"", "l",
      "i", "k", "e", "s", " ", "t", "e", "a", "\"", "}", "]", "}">>
OutItemsTwice ==
    <<"{", "\"", "i", "t", "e", "m", "s", "\"", ":", "[", "{", "\"", "i",
      "d", "\"", ":", "\"", "a", "1", "\"", ",", "\"", "t", "y", "p", "e",
      "\"", ":", "\"", "f", "a", "c", "t", "\"", ",", "\"", "s", "u", "m",
      "m", "a", "r", "y", "\"", ":", "\"", "M", "o", "k", "a", " ", "i",
      "s", " ", "a", " ", "d", "o", "g", "\"", "}", ",", "{", "\"", "i",
      "d", "\"", ":", "\"", "a", "1", "\"", ",", "\"", "t", "y", "p", "e",
      "\"", ":", "\"", "f", "a", "c", "t", "\"", ",", "\"", "s", "u", "m",
      "m", "a", "r", "y", "\"", ":", "\"", "M", "o", "k", "a", " ", "i",
      "s", " ", "a", " ", "d", "o", "g", "\"", "}", "]", "}">>
OutItemsEmpty ==
    <<"{", "\"", "i", "t", "e", "m", "s", "\"", ":", "[", "]", "}">>
OutItemsWithError ==
    <<"{", "\"", "e", "r", "r", "o", "r", "\"", ":", "\"", "b", "o", "o",
      "m", "\"", ",", "\"", "i", "t", "e", "m", "s", "\"", ":", "[", "{",
      "\"", "i", "d", "\"", ":", "\"", "a", "1", "\"", ",", "\"", "t", "y",
      "p", "e", "\"", ":", "\"", "f", "a", "c", "t", "\"", ",", "\"", "s",
      "u", "m", "m", "a", "r", "y", "\"", ":", "\"", "M", "o", "k", "a",
      " ", "i", "s", " ", "a", " ", "d", "o", "g", "\"", "}", "]", "}">>
OutItemsNumber ==
    <<"{", "\"", "i", "t", "e", "m", "s", "\"", ":", "5", "}">>
OutItemsNull ==
    <<"{", "\"", "i", "t", "e", "m", "s", "\"", ":", "[", "n", "u", "l",
      "l", "]", "}">>
OutNumber ==
    <<"4", "2">>

SearchOutputs ==
    { OutItemsOne, OutItemsThree, OutItemsTwice, OutItemsEmpty, OutItemsWithError,
      OutItemsNumber, OutItemsNull, OutNumber }

JsonParseSearch(raw) ==
    IF raw = OutItemsOne THEN WithItems(JsonObject(FALSE, <<>>, FALSE, FALSE), ItemList(<<ItemDog>>))
    ELSE IF raw = OutItemsThree
    THEN WithItems(JsonObject(FALSE, <<>>, FALSE, FALSE), ItemList(<<ItemTrip, ItemDog, ItemTea>>))
    ELSE IF raw = OutItemsTwice
    THEN WithItems(JsonObject(FALSE, <<>>, FALSE, FALSE), ItemList(<<ItemDog, ItemDog>>))
    ELSE IF raw = OutItemsEmpty
    THEN WithItems(JsonObject(FALSE, <<>>, FALSE, FALSE), ItemList(<<>>))
    ELSE IF raw = OutItemsWithError THEN WithItems(ErrorResult(MsgBoom), ItemList(<<ItemDog>>))
    ELSE IF raw = OutItemsNumber THEN WithItems(JsonObject(FALSE, <<>>, FALSE, FALSE), NotAList)
    ELSE IF raw = OutItemsNull
    THEN WithItems(JsonObject(FALSE, <<>>, FALSE, FALSE), ItemList(<<NullItem>>))
    ELSE JsonNumber

\* JSON.parse on the engine outputs of the model; ok = FALSE when it throws
JsonParse(raw) ==
    IF raw \in SearchOutputs THEN [ok |-> TRUE, value |-> JsonParseSearch(raw)] ELSE
    IF raw = OutSuccess THEN [ok |-> TRUE, value |-> JsonObject(FALSE, <<>>, TRUE, FALSE)]
    ELSE IF raw = OutSkipped THEN [ok |-> TRUE, value |-> JsonObject(FALSE, <<>>, FALSE, TRUE)]
    ELSE IF raw = OutError THEN [ok |-> TRUE, value |-> ErrorResult(MsgBoom)]
    ELSE IF raw = OutNull THEN [ok |-> TRUE, value |-> JsonNull]
    ELSE [ok |-> FALSE, value |-> JsonNull]

\* String(code) for the exit codes of the model
Digits == <<"0", "1", "2", "3", "4", "5", "6", "7", "8", "9">>
NumberToString(n) == IF n < 10 THEN <<Digits[n + 1]>> ELSE <<Digits[(n \div 10) + 1], Digits[(n % 10) + 1]>>

\* a gateway that parses stdout before it looks at the exit code
callMemuParseFirst(outcome) ==
    IF outcome.kind = "throws" THEN [settled |-> "rejected", value |-> JsonNull]
    ELSE IF outcome.kind = "error"
         THEN [settled |-> "resolved", value |-> ErrorResult(outcome.stderr)]
    ELSE LET parsed == JsonParse(outcome.stdout)
         IN  IF parsed.ok THEN [settled |-> "resolved", value |-> parsed.value]
             ELSE IF outcome.code # 0
             THEN [settled |-> "resolved",
                   value |-> ErrorResult(IF outcome.stderr # <<>> THEN outcome.stderr
                                         ELSE MsgExited \o NumberToString(outcome.code))]
             ELSE [settled |-> "resolved",
                   value |-> ErrorResult(MsgParse \o outcome.stdout)]

\* a gateway that takes a parsed value that is not an object for a parse failure
callMemuObjectsOnly(outcome) ==
    IF outcome.kind = "throws" THEN [settled |-> "rejected", value |-> JsonNull]
    ELSE IF outcome.kind = "error"
         THEN [settled |-> "resolved", value |-> ErrorResult(outcome.stderr)]
    ELSE IF outcome.code # 0
         THEN [settled |-> "resolved",
               value |-> ErrorResult(IF outcome.stderr # <<>> THEN outcome.stderr
                                     ELSE MsgExited \o NumberToString(outcome.code))]
    ELSE LET parsed == JsonParse(outcome.stdout)
         IN  IF parsed.ok /\ parsed.value.type = "object"
             THEN [settled |-> "resolved", value |-> parsed.value]
             ELSE [settled |-> "resolved",
                   value |-> ErrorResult(MsgParse \o outcome.stdout)]

\* the promise callMemu returns: rejected when the executor throws, else
\* resolved by the first close or error event
callMemu(outcome) ==
    IF outcome.kind = "throws" THEN [settled |-> "rejected", value |-> JsonNull]
    ELSE IF outcome.kind = "error"
         THEN [settled |-> "resolved", value |-> ErrorResult(outcome.stderr)]
    ELSE IF outcome.code # 0
         THEN [settled |-> "resolved",
               value |-> ErrorResult(IF outcome.stderr # <<>> THEN outcome.stderr
                                     ELSE MsgExited \o NumberToString(outcome.code))]
    ELSE LET parsed == JsonParse(outcome.stdout)
         IN  IF parsed.ok THEN [settled |-> "resolved", value |-> parsed.value]
             ELSE [settled |-> "resolved",
                   value |-> ErrorResult(MsgParse \o outcome.stdout)]

\* the ways a spawned engine process ends
ProcOutcomes ==
    { Close(0, OutSuccess, <<>>), Close(0, OutSkipped, <<>>), Close(0, OutError, <<>>),
      Close(0, OutNull, <<>>), Close(0, OutNotJson, <<>>),
      Close(1, <<>>, MsgBoom), Close(1, OutSuccess, <<>>),
      SpawnError(MsgEnoent) }

-----------------------------------------------------------------------------
(* Configuration and the Maintenance Clock.                                *)

Unset == [set |-> FALSE, value |-> 0]
Some(v) == [set |-> TRUE, value |-> v]
\* a string option that is left out
NoText == [set |-> FALSE, value |-> <<>>]
FlagUnset == [set |-> FALSE, value |-> FALSE]
Flag(b) == [set |-> TRUE, value |-> b]

\* opt ?? dflt
Coalesce(opt, dflt) == IF opt.set THEN opt.value ELSE dflt

\* the plugin configuration: every option is set or left out
Config(token, key, recall, capture, hours, topK) ==
    [anthropicToken |-> token, geminiApiKey |-> key,
     autoRecall |-> recall, autoCapture |-> capture,
     cleanupIntervalHours |-> hours, recallTopK |-> topK]

\* !opt for a string option: left out or the empty string
Missing(opt) == ~opt.set \/ opt.value = <<>>

HookNames == {"message_received", "before_agent_start", "agent_end"}
ToolNames ==
    {"memory_delete", "memory_list", "memory_memorize", "memory_categories", "memory_cleanup"}
ServiceNames == {"memory-memu"}

\* a registration that leaves the tools out when both features are off
registerToolsWithFeatures(c) ==
    IF Missing(c.anthropicToken) \/ Missing(c.geminiApiKey)
    THEN [hooks |-> {}, tools |-> {}, services |-> {}]
    ELSE [hooks |-> {"message_received"}
                      \cup (IF Coalesce(c.autoRecall, TRUE) # FALSE
                            THEN {"before_agent_start"} ELSE {})
                      \cup (IF Coalesce(c.autoCapture, TRUE) # FALSE
                            THEN {"agent_end"} ELSE {}),
          tools |-> IF Coalesce(c.autoRecall, TRUE) = FALSE /\ Coalesce(c.autoCapture, TRUE) = FALSE
                    THEN {} ELSE ToolNames,
          services |-> ServiceNames]

\* a registration whose agent_end handler is registered whatever autoCapture
\* says, as if the periodic cleanup were outside the autoCapture condition
registerCaptureAlways(c) ==
    IF Missing(c.anthropicToken) \/ Missing(c.geminiApiKey)
    THEN [hooks |-> {}, tools |-> {}, services |-> {}]
    ELSE [hooks |-> {"message_received", "agent_end"}
                      \cup (IF Coalesce(c.autoRecall, TRUE) # FALSE
                            THEN {"before_agent_start"} ELSE {}),
          tools |-> ToolNames, services |-> ServiceNames]

\* register(api): what the plugin has registered with the host when it returns
register(c) ==
    IF Missing(c.anthropicToken) \/ Missing(c.geminiApiKey)
    THEN [hooks |-> {}, tools |-> {}, services |-> {}]
    ELSE [hooks |-> {"message_received"}
                      \cup (IF Coalesce(c.autoRecall, TRUE) # FALSE
                            THEN {"before_agent_start"} ELSE {})
                      \cup (IF Coalesce(c.autoCapture, TRUE) # FALSE
                            THEN {"agent_end"} ELSE {}),
          tools |-> ToolNames, services |-> ServiceNames]

\* a before_agent_start event: the prompt is absent or a string
NoPrompt == [hasPrompt |-> FALSE, prompt |-> <<>>]
Prompt(text) == [hasPrompt |-> TRUE, prompt |-> text]

MinPromptLength == 10
DefaultTopK == 3

NoContext == [present |-> FALSE, text |-> <<>>]
Context(text) == [present |-> TRUE, text |-> text]

\* what a run of the before_agent_start handler did: the engine commands it
\* issued, what it returned to the host, whether its catch clause ran and
\* whether it raised to the host
Recalled(commands, context, caught) ==
    [pc |-> "returned", commands |-> commands, context |-> context, caught |-> caught]

\* a search command that always carries the default limit
searchCommandDefaultLimit(c, event) ==
    [command |-> "search", args |-> <<event.prompt, NumberToString(DefaultTopK)>>]

searchCommand(c, event) ==
    [command |-> "search",
     args |-> <<event.prompt, NumberToString(Coalesce(c.recallTopK, DefaultTopK))>>]

\* a handler whose search call is not inside a try block
beforeAgentStartUncaught(c, event, outcome) ==
    IF ~event.hasPrompt \/ Len(event.prompt) < MinPromptLength
    THEN Recalled(<<>>, NoContext, FALSE)
    ELSE LET issued == <<searchCommand(c, event)>>
             result == callMemu(outcome)
             raised == [pc |-> "raised", commands |-> issued, context |-> NoContext,
                        caught |-> FALSE]
         IN  IF result.settled = "rejected" THEN raised
             ELSE IF result.value.type = "null" THEN raised
             ELSE IF \/ result.value.hasError
                     \/ result.value.items.kind = "absent"
                     \/ result.value.items.kind = "array" /\ Len(result.value.items.list) = 0
             THEN Recalled(issued, NoContext, FALSE)
             ELSE IF result.value.items.kind # "array" THEN raised
             ELSE IF \E i \in 1..Len(result.value.items.list) : result.value.items.list[i].isNull
             THEN raised
             ELSE Recalled(issued, Context(prependContext(result.value.items.list)), FALSE)

\* the before_agent_start handler on an event, the search process ending
\* as outcome: reading a property of a null result, calling map on an items
\* value that is no array and reading a property of a null item throw, and
\* the catch clause logs and lets the handler return undefined
beforeAgentStart(c, event, outcome) ==
    IF ~event.hasPrompt \/ Len(event.prompt) < MinPromptLength
    THEN Recalled(<<>>, NoContext, FALSE)
    ELSE LET issued == <<searchCommand(c, event)>>
             result == callMemu(outcome)
         IN  IF result.settled = "rejected" THEN Recalled(issued, NoContext, TRUE)
             ELSE IF result.value.type = "null" THEN Recalled(issued, NoContext, TRUE)
             ELSE IF \/ result.value.hasError
                     \/ result.value.items.kind = "absent"
                     \/ result.value.items.kind = "array" /\ Len(result.value.items.list) = 0
             THEN Recalled(issued, NoContext, FALSE)
             ELSE IF result.value.items.kind # "array" THEN Recalled(issued, NoContext, TRUE)
             ELSE IF \E i \in 1..Len(result.value.items.list) : result.value.items.list[i].isNull
             THEN Recalled(issued, NoContext, TRUE)
             ELSE Recalled(issued, Context(prependContext(result.value.items.list)), FALSE)

MsPerHour == 60 * 60 * 1000

\* (cfg.cleanupIntervalHours ?? 0) * 60 * 60 * 1000
cleanupIntervalMs(c) == Coalesce(c.cleanupIntervalHours, 0) * MsPerHour

\* a gate that leaves out the cleanupIntervalMs > 0 conjunct
gateDueWithoutPositiveInterval(intervalMs, now, last) == now - last > intervalMs

\* cleanupIntervalMs > 0 && now - lastCleanupTime > cleanupIntervalMs
gateDue(intervalMs, now, last) == intervalMs > 0 /\ now - last > intervalMs

\* Date.now() when the plugin is registered, and the step of the clock
ProcessStart == StartHours * MsPerHour
TickMs == TickMinutes * 60 * 1000

\* a Maintenance Clock that starts at the time the plugin is registered
ClockFromProcessStart == ProcessStart

\* let lastCleanupTime = 0
InitialCleanupTime == 0

\* a stamp taken from Date.now() when the cleanup call has returned
stampAtReturn(result, now, last) == clock

\* a stamp written only when the cleanup result carries no error
stampOnSuccessOnly(result, now, last) == IF result.value.hasError THEN last ELSE now

\* the value the line after the awaited cleanup call stores in the clock
stampAfterCleanup(result, now, last) == now

-----------------------------------------------------------------------------
(* The transcripts of the model.                                           *)

TextMoka == 
    <<"m", "y", " ", "d", "o", "g", " ", "i", "s", " ", "c", "a", "l",
      "l", "e", "d", " ", "M", "o", "k", "a", ",", " ", "o", "k">>
TextRemember == 
    <<"N", "i", "c", "e", ",", " ", "I", " ", "w", "i", "l", "l", " ",
      "r", "e", "m", "e", "m", "b", "e", "r", " ", "M", "o", "k", "a", ".">>
TextPhoto == 
    <<"t", "h", "i", "s", " ", "p", "h", "o", "t", "o", " ", "s", "h",
      "o", "w", "s", " ", "M", "o", "k", "a", " ", "a", "t", " ", "t",
      "h", "e", " ", "p", "a", "r", "k">>
TextLong ==
    <<"I", " ", "w", "o", "u", "l", "d", " ", "l", "i", "k", "e", " ", "t",
      "o", " ", "p", "l", "a", "n", " ", "a", " ", "t", "r", "i", "p", " ",
      "t", "o", " ", "t", "h", "e", " ", "c", "o", "a", "s", "t", " ", "n",
      "e", "x", "t", " ", "m", "o", "n", "t", "h", " ", "w", "i", "t", "h",
      " ", "m", "y", " ", "s", "i", "s", "t", "e", "r", " ", "a", "n", "d",
      " ", "h", "e", "r", " ", "t", "w", "o", " ", "k", "i", "d", "s", ",",
      " ", "s", "o", "m", "e", "w", "h", "e", "r", "e", " ", "q", "u", "i",
      "e", "t", " ", "n", "e", "a", "r", " ", "t", "h", "e", " ", "b", "e",
      "a", "c", "h">>
TextFact ==
    <<"f", "a", "c", "t">>
TextSummary ==
    <<"t", "h", "e", " ", "d", "o", "g", " ", "o", "f", " ", "t", "h", "e",
      " ", "u", "s", "e", "r", " ", "i", "s", " ", "c", "a", "l", "l", "e",
      "d", " ", "M", "o", "k", "a", ",", " ", "s", "h", "e", " ", "i", "s",
      " ", "t", "h", "r", "e", "e", " ", "y", "e", "a", "r", "s", " ", "o",
      "l", "d", " ", "a", "n", "d", " ", "a", "f", "r", "a", "i", "d", " ",
      "o", "f", " ", "t", "h", "u", "n", "d", "e", "r", "s", "t", "o", "r",
      "m", "s">>
TextQuestion ==
    <<"w", "h", "a", "t", " ", "s", "h", "o", "u", "l", "d", " ", "I", " ",
      "f", "e", "e", "d", " ", "h", "e", "r", "?">>
TextEnoent ==
    <<"T", "h", "e", " ", "e", "n", "g", "i", "n", "e", " ", "c", "o", "u",
      "l", "d", " ", "n", "o", "t", " ", "s", "t", "a", "r", "t", ":", " ",
      "s", "p", "a", "w", "n", " ", "p", "y", "t", "h", "o", "n", "3", " ",
      "E", "N", "O", "E", "N", "T">>
TextProbe ==
    <<"w", "h", "a", "t", " ", "d", "o", "e", "s", " ", "h", "e", "a", "r",
      "t", "b", "e", "a", "t", " ", "m", "e", "a", "n", " ", "i", "n", " ",
      "t", "h", "i", "s", " ", "c", "o", "n", "f", "i", "g", "?">>
TextAck ==
    <<"t", "h", "e", " ", "a", "g", "e", "n", "t", " ", "a", "n", "s", "w",
      "e", "r", "s", " ", "h", "e", "a", "r", "t", "b", "e", "a", "t", "_",
      "o", "k", " ", "w", "h", "e", "n", " ", "i", "t", " ", "i", "s", " ",
      "i", "d", "l", "e", ".">>
TextHi == <<"h", "i">>
TextHel == <<"h", "e", "l">>
TextLo == <<"l", "o">>

UserMoka == Obj("user", StringContent(TextMoka))
UserHi == Obj("user", StringContent(TextHi))
UserBlank == Obj("user", StringContent(<<" ">>))
UserPhoto == Obj("user", ArrayContent(<<Block("image"), TextBlock(TextPhoto)>>))
AssistantRemember == Obj("assistant", StringContent(TextRemember))
AssistantHello ==
    Obj("assistant",
        ArrayContent(<<TextBlock(TextHel), Block("tool_use"), PrimBlock, TextBlock(TextLo)>>))
AssistantNoContent == Obj("assistant", OtherContent)
AssistantNullBlock == Obj("assistant", ArrayContent(<<NullBlock>>))
SystemNote == Obj("system", StringContent(TextMoka))
NoRole == Obj("none", StringContent(TextMoka))
UserLong == Obj("user", StringContent(TextLong))
AssistantEnoent == Obj("assistant", StringContent(TextEnoent))
UserProbe == Obj("user", StringContent(TextProbe))
AssistantAck == Obj("assistant", StringContent(TextAck))
\* a user message of a turn into which the host prepended the recall block
\* the before_agent_start handler returned, ahead of the prompt
RecalledItems == <<[type |-> TextFact, summary |-> TextSummary]>>
UserRecalled ==
    Obj("user",
        StringContent(prependContext(RecalledItems) \o <<"\n", "\n">> \o TextQuestion))

\* the events the host delivers in SpecSeq: one per way the handler can go
EvStore == Event(TRUE, TRUE, <<UserMoka, AssistantRemember>>)
EvImage == Event(TRUE, TRUE, <<UserPhoto, AssistantRemember>>)
EvReject == Event(TRUE, TRUE, <<UserHi, AssistantHello>>)
EvAbstain == Event(TRUE, TRUE, <<UserMoka, AssistantNoContent>>)
EvFailed == Event(FALSE, TRUE, <<UserMoka, AssistantRemember>>)
EvNoMessages == Event(TRUE, FALSE, <<>>)
EvNull == Event(TRUE, TRUE, <<NullEntry, UserMoka, AssistantRemember>>)

SpecEvents == {EvStore, EvImage, EvReject, EvAbstain, EvFailed, EvNoMessages, EvNull}

\* the events of overlapping turns in Spec: one that reaches the cleanup
\* gate and one that does not
OverlapEvents == {EvStore, EvAbstain}

\* the ways the engine process ends in Spec: with a result and with a failure
OverlapOutcomes == {Close(0, OutSuccess, <<>>), Close(1, <<>>, MsgBoom)}

\* the transcripts of SpecT: every sequence of at most MaxLen of these entries
Entries ==
    { NullEntry, PrimEntry, NoRole, SystemNote,
      UserMoka, UserHi, UserBlank, UserPhoto,
      AssistantRemember, AssistantHello, AssistantNoContent, AssistantNullBlock }

SeqsUpTo(S, n) == UNION {[1..k -> S] : k \in 0..n}

Transcripts == SeqsUpTo(Entries, MaxLen)

TEvents ==
    {Event(ok, TRUE, m) : ok \in BOOLEAN, m \in Transcripts} \cup {EvNoMessages}

\* the events of SpecF: a turn the Capture Filter admits and turns it rejects
\* for its length, for a noise pattern and as a heartbeat exchange
EvNoise == Event(TRUE, TRUE, <<UserMoka, AssistantEnoent>>)
EvHeartbeat == Event(TRUE, TRUE, <<UserProbe, AssistantAck>>)

FilterEvents == {EvStore, EvReject, EvNoise, EvHeartbeat}

\* the transcripts of SpecW: every sequence of at most MaxWindowLen of these
\* entries, long enough for a Context Window with messages left out before it
WindowEntries == {UserLong, UserRecalled, AssistantRemember}

WindowEvents ==
    {Event(TRUE, TRUE, m) : m \in SeqsUpTo(WindowEntries, MaxWindowLen)} \cup {EvReject}

-----------------------------------------------------------------------------
(* The agent_end handler.                                                  *)

NoStep == [decision |-> "none", messages |-> <<>>,
           lastAssistantIdx |-> -1, lastUserIdx |-> -1,
           context |-> <<>>, content |-> <<>>]

NoEvent == Event(FALSE, FALSE, <<>>)

\* A handler invocation.  pc: "idle" when the slot holds no invocation;
\* "store" and "cleanup" while the handler awaits that engine call; "done"
\* when it returned; "raised" when its promise rejected.  hs holds the
\* invocations in flight, finished the one that ended last.
IdleHandler ==
    [pc |-> "idle", ev |-> NoEvent, cap |-> "none", step |-> NoStep,
     storeCalls |-> 0, gateEvals |-> 0, now |-> 0, sawLast |-> 0,
     due |-> FALSE, cleanup |-> "none", logIdx |-> 0]

\* the host gives a new invocation the lowest free slot
FreeSlot(h) == hs[h].pc = "idle" /\ \A g \in DOMAIN hs : g < h => hs[g].pc # "idle"

\* the invocation in slot h ends as rec
Finish(h, rec) ==
    /\ hs' = [hs EXCEPT ![h] = IdleHandler]
    /\ finished' = rec

\* the rest of the try block once the store call settled: a rejection and a
\* null result (reading .skipped of null) end in the catch clause
captureOutcome(result) ==
    IF result.settled = "rejected" THEN "threw"
    ELSE IF result.value.type = "null" THEN "threw"
    ELSE IF result.value.skipped THEN "engineSkipped"
    ELSE IF result.value.success THEN "stored"
    ELSE IF result.value.hasError THEN "storeError"
    ELSE "ignored"

\* the periodic-cleanup block: read Date.now() and the clock, and when the
\* gate is due call callMemu("cleanup"); when spawn() throws inside that
\* call the catch clause of the block absorbs the rejection
Gate(h, rec) ==
    LET intervalMs == cleanupIntervalMs(cfg)
        now == clock
        due == gateDue(intervalMs, now, lastCleanupTime)
        seen == [rec EXCEPT !.gateEvals = rec.gateEvals + 1, !.now = now,
                            !.sawLast = lastCleanupTime, !.due = due]
    IN  /\ UNCHANGED lastCleanupTime
        /\ IF due
           THEN \/ /\ hs' = [hs EXCEPT ![h] = [seen EXCEPT !.pc = "cleanup",
                                                           !.cleanup = "pending",
                                                           !.logIdx = Len(cleanupLog) + 1]]
                   /\ cleanupLog' = Append(cleanupLog, [at |-> now, result |-> "pending"])
                   /\ UNCHANGED finished
                \/ /\ Finish(h, [seen EXCEPT !.pc = "done", !.cleanup = "threw"])
                   /\ UNCHANGED cleanupLog
           ELSE /\ Finish(h, [seen EXCEPT !.pc = "done"])
                /\ UNCHANGED cleanupLog

\* a handler that returns from the catch clause of the capture step, and
\* after a store result with an error, without reaching the cleanup block
ReturnOnCaptureFailure(h, rec) ==
    IF rec.cap \in {"threw", "storeError"}
    THEN /\ Finish(h, [rec EXCEPT !.pc = "done"])
         /\ UNCHANGED <<lastCleanupTime, cleanupLog>>
    ELSE Gate(h, rec)

\* a handler that issues the store command a second time when its result
\* carries an error
StoreAgainOnError(h, rec) ==
    IF rec.cap = "storeError" /\ rec.storeCalls < 2
    THEN /\ hs' = [hs EXCEPT ![h] = [rec EXCEPT !.pc = "store", !.cap = "pending",
                                                 !.storeCalls = rec.storeCalls + 1]]
         /\ UNCHANGED <<lastCleanupTime, cleanupLog, finished>>
    ELSE Gate(h, rec)

\* the try block of the capture step is left, normally or through its catch
\* clause, which only logs: the handler goes on to the periodic-cleanup block
AfterCapture(h, rec) == Gate(h, rec)

\* the capture decisions of the events the host delivers repeatedly
SpecEventSteps == [ev \in SpecEvents \cup FilterEvents |-> captureStep(ev)]

StepOf(ev) ==
    IF ev \in SpecEvents \cup FilterEvents THEN SpecEventSteps[ev] ELSE captureStep(ev)

\* the host emits agent_end: the handler runs to its first await or its end.
\* fsOk: the debug log can be written; in the store call spawn() either
\* starts the process or throws, which the catch clause of the try absorbs
AgentEnd(h, ev) ==
    /\ "agent_end" \in register(cfg).hooks
    /\ FreeSlot(h)
    /\ budget > 0
    /\ budget' = budget - 1
    /\ UNCHANGED <<cfg, clock, ticks, probe>>
    /\ LET rec == [IdleHandler EXCEPT !.ev = ev]
       IN  \E fsOk \in BOOLEAN :
           IF DebugScanThrows(ev, fsOk)
           THEN /\ Finish(h, [rec EXCEPT !.pc = "raised"])
                /\ UNCHANGED <<lastCleanupTime, cleanupLog>>
           ELSE IF SkipsCapture(ev)
           THEN /\ Finish(h, [rec EXCEPT !.pc = "done", !.cap = "skipped"])
                /\ UNCHANGED <<lastCleanupTime, cleanupLog>>
           ELSE LET step == StepOf(ev)
                    got == [rec EXCEPT !.step = step]
                IN  IF step.decision # "store"
                    THEN /\ Finish(h, [got EXCEPT !.pc = "done", !.cap = step.decision])
                         /\ UNCHANGED <<lastCleanupTime, cleanupLog>>
                    ELSE \/ /\ hs' = [hs EXCEPT ![h] =
                                        [got EXCEPT !.pc = "store", !.cap = "pending",
                                                    !.storeCalls = 1]]
                            /\ UNCHANGED <<lastCleanupTime, cleanupLog, finished>>
                         \/ AfterCapture(h, [got EXCEPT
                                               !.cap = captureOutcome(callMemu(SpawnThrows)),
                                               !.storeCalls = 1])

\* the store process ended: the handler logs the result and checks the gate
StoreSettles(h, outcome) ==
    /\ hs[h].pc = "store"
    /\ UNCHANGED <<cfg, clock, budget, ticks, probe>>
    /\ AfterCapture(h, [hs[h] EXCEPT !.cap = captureOutcome(callMemu(outcome))])

\* the cleanup process ended: the handler stamps the clock and returns
CleanupSettles(h, outcome) ==
    /\ hs[h].pc = "cleanup"
    /\ LET result == callMemu(outcome)
           how == IF result.value.hasError THEN "error" ELSE "ok"
       IN  /\ lastCleanupTime' = stampAfterCleanup(result, hs[h].now, lastCleanupTime)
           /\ Finish(h, [hs[h] EXCEPT !.pc = "done", !.cleanup = how])
           /\ cleanupLog' = [cleanupLog EXCEPT ![hs[h].logIdx].result = how]
    /\ UNCHANGED <<cfg, clock, budget, ticks, probe>>

\* a clock advance that ends every engine call in flight, as a timeout in
\* the gateway would
TickTimesOut ==
    /\ ticks < MaxTicks
    /\ ticks' = ticks + 1
    /\ clock' = clock + TickMs
    /\ hs' = [h \in DOMAIN hs |->
                IF hs[h].pc \in {"store", "cleanup"} THEN IdleHandler ELSE hs[h]]
    /\ UNCHANGED <<cfg, lastCleanupTime, finished, budget, cleanupLog, probe>>

\* time passes
Tick ==
    /\ ticks < MaxTicks
    /\ ticks' = ticks + 1
    /\ clock' = clock + TickMs
    /\ UNCHANGED <<cfg, lastCleanupTime, hs, finished, budget, cleanupLog, probe>>

-----------------------------------------------------------------------------
(* Specifications.                                                         *)

\* no function is called on its own
NoProbe == [input |-> <<>>, outputs |-> <<>>]

NumHandlers == 2
Handlers == 1..NumHandlers

TokenStatic ==
    <<"s", "k", "-", "a", "n", "t", "-", "s", "t", "a", "t", "i", "c">>
KeyGemini ==
    <<"A", "I", "z", "a", "-", "k", "e", "y">>

\* the configurations of the capture specifications: both keys are set
Configs ==
    { Config(Some(TokenStatic), Some(KeyGemini), FlagUnset, ac, ci, Unset) :
        ac \in {FlagUnset, Flag(FALSE)}, ci \in {Unset, Some(0), Some(1)} }

Init ==
    /\ cfg \in Configs
    /\ clock = ProcessStart
    /\ lastCleanupTime = InitialCleanupTime
    /\ hs = [h \in Handlers |-> IdleHandler]
    /\ finished = IdleHandler
    /\ budget = MaxOverlap
    /\ ticks = 0
    /\ cleanupLog = <<>>
    /\ probe = NoProbe

\* agent_end handlers of overlapping turns share the event loop
Next ==
    \/ \E h \in Handlers, ev \in OverlapEvents : AgentEnd(h, ev)
    \/ \E h \in Handlers, o \in OverlapOutcomes : StoreSettles(h, o)
    \/ \E h \in Handlers, o \in OverlapOutcomes : CleanupSettles(h, o)
    \/ Tick

Spec == Init /\ [][Next]_vars

\* the engine process of a handler that awaits it ends
ProcessEnds(h) ==
    \/ \E o \in OverlapOutcomes : StoreSettles(h, o)
    \/ \E o \in OverlapOutcomes : CleanupSettles(h, o)

\* overlapping handlers with capture and periodic cleanup switched on
InitLive ==
    /\ Init
    /\ cfg.autoCapture = FlagUnset
    /\ cfg.cleanupIntervalHours = Some(1)

\* overlapping handlers when every spawned engine process eventually exits
NextLive ==
    \/ \E h \in Handlers : AgentEnd(h, EvStore)
    \/ \E h \in Handlers : ProcessEnds(h)
    \/ Tick

SpecLive == InitLive /\ [][NextLive]_vars /\ \A h \in Handlers : WF_vars(ProcessEnds(h))

\* agent_end events handled one after another: the next event is delivered
\* when the handler of the previous one has finished
NextSeq ==
    \/ \E ev \in SpecEvents : AgentEnd(1, ev)
    \/ \E o \in ProcOutcomes : StoreSettles(1, o)
    \/ \E o \in ProcOutcomes : CleanupSettles(1, o)
    \/ Tick

InitSeq ==
    /\ cfg \in Configs
    /\ clock = ProcessStart
    /\ lastCleanupTime = InitialCleanupTime
    /\ hs = [h \in Handlers |-> IdleHandler]
    /\ finished = IdleHandler
    /\ budget = MaxEvents
    /\ ticks = 0
    /\ cleanupLog = <<>>
    /\ probe = NoProbe

SpecSeq == InitSeq /\ [][NextSeq]_vars

\* one agent_end event, its transcript drawn from Transcripts
InitT ==
    /\ cfg \in {c \in Configs : c.autoCapture = FlagUnset /\ c.cleanupIntervalHours = Some(1)}
    /\ clock = ProcessStart
    /\ lastCleanupTime = InitialCleanupTime
    /\ hs = [h \in Handlers |-> IdleHandler]
    /\ finished = IdleHandler
    /\ budget = 1
    /\ ticks = 0
    /\ cleanupLog = <<>>
    /\ probe = NoProbe

NextT ==
    \/ budget > 0 /\ \E ev \in TEvents : AgentEnd(1, ev)
    \/ \E o \in ProcOutcomes : StoreSettles(1, o)
    \/ \E o \in ProcOutcomes : CleanupSettles(1, o)

SpecT == InitT /\ [][NextT]_vars

\* agent_end events handled one after another, drawn from FilterEvents
NextF ==
    \/ \E ev \in FilterEvents : AgentEnd(1, ev)
    \/ \E o \in OverlapOutcomes : StoreSettles(1, o)
    \/ \E o \in OverlapOutcomes : CleanupSettles(1, o)
    \/ Tick

SpecF == InitSeq /\ [][NextF]_vars

\* one agent_end event, its transcript drawn from WindowEvents
NextW ==
    \/ budget > 0 /\ \E ev \in WindowEvents : AgentEnd(1, ev)
    \/ \E o \in OverlapOutcomes : StoreSettles(1, o)
    \/ \E o \in OverlapOutcomes : CleanupSettles(1, o)

SpecW == InitT /\ [][NextW]_vars

-----------------------------------------------------------------------------
(* Functions of the module called on their own.                            *)

\* a ParsedMessage
MessageText(role, content) == [role |-> role, content |-> content]

\* the state in which the function under call is given the input x, for
\* every x of inputs; no agent_end event is delivered
InitProbe(inputs) ==
    /\ cfg \in {c \in Configs : c.autoCapture = FlagUnset /\ c.cleanupIntervalHours = Unset}
    /\ clock = ProcessStart
    /\ lastCleanupTime = InitialCleanupTime
    /\ hs = [h \in Handlers |-> IdleHandler]
    /\ finished = IdleHandler
    /\ budget = 0
    /\ ticks = 0
    /\ cleanupLog = <<>>
    /\ probe \in {[input |-> x, outputs |-> <<>>] : x \in inputs}

\* the function returned out; nothing else changes
Returned(out) ==
    /\ probe' = [probe EXCEPT !.outputs = Append(probe.outputs, out)]
    /\ UNCHANGED <<cfg, clock, lastCleanupTime, hs, finished, budget, ticks, cleanupLog>>

RECURSIVE Concat(_)
Concat(parts) == IF parts = <<>> THEN <<>> ELSE Head(parts) \o Concat(Tail(parts))

\* texts with whole, nested, overlapping and partially formed recall markers
OpenHead == SubSeq(OpenTag, 1, 10)
OpenTail == SubSeq(OpenTag, 11, Len(OpenTag))
MarkerPieces == {OpenTag, CloseTag, OpenHead, OpenTail, <<"x">>, <<" ">>}

MarkerTexts == {Concat(p) : p \in SeqsUpTo(MarkerPieces, MaxPieces)}

\* stripMemoryTags is applied to the text, and then to what it returned
StripText ==
    /\ Len(probe.outputs) < 2
    /\ Returned(stripMemoryTags(IF probe.outputs = <<>> THEN probe.input
                                ELSE probe.outputs[Len(probe.outputs)]))

SpecStrip == InitProbe(MarkerTexts) /\ [][StripText]_vars

\* the texts shouldCapture is called with: a prefix (nothing, a brace, a
\* code fence, a recall block, a user label), n characters of plain prose
\* or of white space, and an ending (nothing, a noise phrase in the case of
\* its pattern or in another case, an empty role line, an assistant line)
FillerPhrase ==
    <<"w", "e", " ", "w", "a", "l", "k", "e", "d", " ", "a", "l", "o", "n",
      "g", " ", "t", "h", "e", " ", "r", "i", "v", "e", "r", " ", "a", "n",
      "d", " ", "s", "a", "w", " ", "a", " ", "h", "e", "r", "o", "n", ",",
      " ">>

Filler(n) == [i \in 1..n |-> FillerPhrase[((i - 1) % Len(FillerPhrase)) + 1]]

Blanks(n) == [i \in 1..n |-> " "]

FillerLengths == {0, 5, 19, 20, 44, 49, 50, 60, 194}

TextPrefixes ==
    { <<>>, <<"{">>, CodeFence, OpenTag \o Noise12 \o CloseTag,
      UserLabel \o ColonSpace }

TextEndings ==
    { <<>>, Noise12, Noise06, [i \in 1..Len(Noise06) |-> Lower(Noise06[i])],
      [i \in 1..Len(Noise05) |-> Lower(Noise05[i])],
      <<"\n">> \o AssistantLabel \o <<":", " ", " ", " ", " ", " ", " ">>,
      <<"\n">> \o AssistantLabel \o ColonSpace \o Filler(20) }

\* the heartbeat exchanges: a probe and its acknowledgment, in upper case
\* (39 characters) and in lower case with a longer probe (60 characters)
TextHeartbeatShort ==
    UserLabel \o ColonSpace \o HeartbeatWord \o <<"\n">>
       \o AssistantLabel \o ColonSpace \o HeartbeatOk
TextHeartbeatLong ==
    UserLabel \o ColonSpace
       \o [i \in 1..Len(HeartbeatWord) |-> Lower(HeartbeatWord[i])]
       \o <<" ", "p", "i", "n", "g", ",", " ", "a", "r", "e", " ", "y", "o",
            "u", " ", "t", "h", "e", "r", "e", "?">>
       \o <<"\n">> \o AssistantLabel \o ColonSpace
       \o [i \in 1..Len(HeartbeatOk) |-> Lower(HeartbeatOk[i])]

\* an exchange about heartbeats, as the handler renders it
TextHeartbeatTalk == renderTurn(<<MessageText("user", TextProbe),
                                  MessageText("assistant", TextAck)>>)

FilterTexts ==
    { pre \o body \o end :
        pre \in TextPrefixes,
        body \in {Filler(n) : n \in FillerLengths} \cup {Blanks(n) : n \in FillerLengths},
        end \in TextEndings }
    \cup {TextHeartbeatShort, TextHeartbeatLong, TextHeartbeatTalk}

\* shouldCapture is called with the text
FilterText ==
    /\ probe.outputs = <<>>
    /\ Returned(shouldCapture(probe.input))

SpecFilter == InitProbe(FilterTexts) /\ [][FilterText]_vars

\* the engine calls of the gateway on its own: the process closes with an
\* exit code, an stdout and an stderr, or emits "error", or spawn() throws
MaxCode == 3

GatewayOutcomes ==
    { Close(code, out, err) :
        code \in 0..MaxCode,
        out \in {<<>>, OutSuccess, OutSkipped, OutError, OutNull, OutNotJson},
        err \in {<<>>, MsgBoom, MsgEnoent} }
    \cup {SpawnError(MsgEnoent), SpawnError(MsgBoom), SpawnThrows}

\* callMemu is called and its promise settles
CallEngine ==
    /\ probe.outputs = <<>>
    /\ Returned(callMemu(probe.input))

SpecGateway == InitProbe(GatewayOutcomes) /\ [][CallEngine]_vars

\* The promise of new Promise((resolve) => ...) while the process lives:
\* pending, or resolved with a value; deliveries counts how often the
\* awaiting caller was resumed with a result.
PendingPromise == [state |-> "pending", value |-> JsonNull, deliveries |-> 0]

\* a resolve function that takes every call
resolveOverwrites(promise, value) ==
    [state |-> "resolved", value |-> value, deliveries |-> promise.deliveries + 1]

\* resolve(value): settles a pending promise and resumes the caller; a call
\* on a settled promise does nothing
resolve(promise, value) ==
    IF promise.state = "pending"
    THEN [state |-> "resolved", value |-> value, deliveries |-> promise.deliveries + 1]
    ELSE promise

\* the close and error listeners: each computes its result and calls resolve
onProcessEvent(promise, e) == resolve(promise, callMemu(e).value)

MaxProcEvents == 2

\* the close and error events a spawned process emits
ProcessEvents ==
    { Close(code, out, err) :
        code \in {0, MaxCode}, out \in {OutSuccess, OutNotJson}, err \in {<<>>, MsgBoom} }
    \cup {SpawnError(MsgEnoent), SpawnError(MsgBoom)}

EventRuns == UNION {[1..k -> ProcessEvents] : k \in 1..MaxProcEvents}

\* the promise after the events fired so far
PromiseNow ==
    IF probe.outputs = <<>> THEN PendingPromise ELSE probe.outputs[Len(probe.outputs)]

\* the process emits its next event and the listener for it runs
FireProcessEvent ==
    /\ Len(probe.outputs) < Len(probe.input)
    /\ Returned(onProcessEvent(PromiseNow, probe.input[Len(probe.outputs) + 1]))

SpecSettle == InitProbe(EventRuns) /\ [][FireProcessEvent]_vars

\* The profile store auth-profiles.json as readFileSync and JSON.parse give
\* it: the file is missing, unreadable or no JSON text, or it parses to
\* null, to a number or to an object.  An object has a lastGood property
\* (absent, null, or an object whose anthropic property is absent or a
\* profile name) and a profiles property (absent, or an object whose
\* entries, in storage order, map an identifier to null or to an object
\* with or without a token).
StoreFailed(kind) ==
    [kind |-> kind, type |-> "none", lastGood |-> [kind |-> "absent", anthropic |-> NoText],
     hasProfiles |-> FALSE, entries |-> <<>>]
StoreValue(type) == [StoreFailed("json") EXCEPT !.type = type]
StoreObject(lastGood, hasProfiles, entries) ==
    [kind |-> "json", type |-> "object", lastGood |-> lastGood,
     hasProfiles |-> hasProfiles, entries |-> entries]

NullProfile == [isNull |-> TRUE, token |-> NoText]
Profile(token) == [isNull |-> FALSE, token |-> token]
Entry(id, profile) == [id |-> id, profile |-> profile]

\* profile?.token is truthy
HasToken(profile) == ~profile.isNull /\ profile.token.set /\ profile.token.value # <<>>

AnthropicPrefix ==
    <<"a", "n", "t", "h", "r", "o", "p", "i", "c", ":">>

\* data.profiles[name]: the entry with that identifier, NullProfile standing
\* for undefined when there is none
RECURSIVE ProfileNamed(_, _)
ProfileNamed(entries, name) ==
    IF entries = <<>> THEN NullProfile
    ELSE IF Head(entries).id = name THEN Head(entries).profile
    ELSE ProfileNamed(Tail(entries), name)

\* the loop over Object.entries(data.profiles ?? {}): the token of the first
\* entry whose identifier starts with "anthropic:" and has a token
RECURSIVE FirstAnthropicToken(_, _)
FirstAnthropicToken(entries, staticToken) ==
    IF entries = <<>> THEN staticToken
    ELSE IF StartsWith(Head(entries).id, AnthropicPrefix) /\ HasToken(Head(entries).profile)
    THEN Head(entries).profile.token
    ELSE FirstAnthropicToken(Tail(entries), staticToken)

Resolved(store, token) == [pc |-> "returned", value |-> token, storeAfter |-> store]

\* a resolver that goes straight to the loop over the profiles
resolveWithoutLastGood(store, staticToken) ==
    IF store.kind # "json" \/ store.type # "object" THEN Resolved(store, staticToken)
    ELSE Resolved(store, FirstAnthropicToken(store.entries, staticToken))

\* a resolver without the try block
resolveUncaught(store, staticToken) ==
    IF store.kind # "json" \/ store.type = "null"
    THEN [pc |-> "raised", value |-> NoText, storeAfter |-> store]
    ELSE IF store.type # "object" THEN Resolved(store, staticToken)
    ELSE LET lastGood == IF store.lastGood.kind = "object" THEN store.lastGood.anthropic
                         ELSE NoText
         IN  IF /\ lastGood.set /\ lastGood.value # <<>>
                /\ HasToken(ProfileNamed(store.entries, lastGood.value))
             THEN Resolved(store, ProfileNamed(store.entries, lastGood.value).token)
             ELSE Resolved(store, FirstAnthropicToken(store.entries, staticToken))

\* resolveAnthropicToken(staticToken) with the profile store as it is on
\* disk: readFileSync and JSON.parse throw for a file that is missing,
\* unreadable or no JSON, reading .lastGood of null throws, and the catch
\* clause falls through to the static token; the store is only read
resolveAnthropicToken(store, staticToken) ==
    IF store.kind # "json" THEN Resolved(store, staticToken)
    ELSE IF store.type = "null" THEN Resolved(store, staticToken)
    ELSE IF store.type # "object" THEN Resolved(store, staticToken)
    ELSE LET lastGood == IF store.lastGood.kind = "object" THEN store.lastGood.anthropic
                         ELSE NoText
         IN  IF /\ lastGood.set /\ lastGood.value # <<>>
                /\ HasToken(ProfileNamed(store.entries, lastGood.value))
             THEN Resolved(store, ProfileNamed(store.entries, lastGood.value).token)
             ELSE Resolved(store, FirstAnthropicToken(store.entries, staticToken))

\* the profile stores of the model: at most MaxProfiles entries with
\* distinct identifiers
MaxProfiles == 2

IdWork ==
    <<"a", "n", "t", "h", "r", "o", "p", "i", "c", ":", "w", "o", "r", "k">>
IdHome ==
    <<"a", "n", "t", "h", "r", "o", "p", "i", "c", ":", "h", "o", "m", "e">>
IdOpenai ==
    <<"o", "p", "e", "n", "a", "i", ":", "m", "a", "i", "n">>
IdGone ==
    <<"a", "n", "t", "h", "r", "o", "p", "i", "c", ":", "g", "o", "n", "e">>
TokenOf(id) == <<"t", "o", "k", "e", "n", "-">> \o id

ProfileIds == {IdWork, IdHome, IdOpenai}

EntryPool ==
    UNION { { Entry(id, profile) :
                profile \in {NullProfile, Profile(NoText), Profile(Some(<<>>)),
                             Profile(Some(TokenOf(id)))} } :
            id \in ProfileIds }

DistinctIds(entries) ==
    \A i, j \in 1..Len(entries) : i # j => entries[i].id # entries[j].id

LastGoods ==
    { [kind |-> "absent", anthropic |-> NoText], [kind |-> "null", anthropic |-> NoText],
      [kind |-> "object", anthropic |-> NoText] }
    \cup { [kind |-> "object", anthropic |-> Some(id)] : id \in {IdWork, IdOpenai, IdGone} }

ProfileStores ==
    { StoreFailed(kind) : kind \in {"missing", "unreadable", "malformed"} }
    \cup { StoreValue(type) : type \in {"null", "number"} }
    \cup { StoreObject(lastGood, FALSE, <<>>) : lastGood \in LastGoods }
    \cup { StoreObject(lastGood, TRUE, entries) :
             lastGood \in LastGoods,
             entries \in {e \in SeqsUpTo(EntryPool, MaxProfiles) : DistinctIds(e)} }

ResolverInputs ==
    { [store |-> store, staticToken |-> static] :
        store \in ProfileStores, static \in {NoText, Some(TokenStatic)} }

\* resolveAnthropicToken is called
ResolveToken ==
    /\ probe.outputs = <<>>
    /\ Returned(resolveAnthropicToken(probe.input.store, probe.input.staticToken))

SpecResolver == InitProbe(ResolverInputs) /\ [][ResolveToken]_vars

\* the host emits before_agent_start: the handler runs, its search process
\* ends as outcome, and the host receives what the handler returns
BeforeAgentStart(event, outcome) ==
    /\ "before_agent_start" \in register(cfg).hooks
    /\ budget > 0
    /\ budget' = budget - 1
    /\ probe' = [input |-> [event |-> event, outcome |-> outcome],
                 outputs |-> <<beforeAgentStart(cfg, event, outcome)>>]
    /\ UNCHANGED <<cfg, clock, lastCleanupTime, hs, finished, ticks, cleanupLog>>

\* prompts around the length threshold
PromptNine == <<"w", "h", "o", " ", "i", "s", " ", "i", "t">>
PromptTen == <<"w", "h", "o", " ", "i", "s", " ", "s", "h", "e">>
PromptLong ==
    <<"w", "h", "a", "t", " ", "i", "s", " ", "m", "y", " ", "d", "o", "g", " ",
      "c", "a", "l", "l", "e", "d", "?">>
Blank10 == <<" ", " ", " ", " ", " ", " ", " ", " ", " ", " ">>

RecallEvents ==
    {NoPrompt, Prompt(<<>>), Prompt(PromptNine), Prompt(PromptTen), Prompt(PromptLong),
     Prompt(Blank10)}

\* the ways the search process ends
SearchOutcomes ==
    {Close(0, out, <<>>) : out \in SearchOutputs \cup {OutSuccess, OutError, OutNull, OutNotJson}}
    \cup {Close(1, OutItemsOne, MsgBoom), Close(1, <<>>, <<>>), SpawnError(MsgEnoent),
          SpawnThrows}

RecallConfigs ==
    { Config(Some(TokenStatic), Some(KeyGemini), ar, FlagUnset, Unset, k) :
        ar \in {FlagUnset, Flag(TRUE)}, k \in {Unset, Some(0), Some(5)} }

InitRecall ==
    /\ cfg \in RecallConfigs
    /\ clock = ProcessStart
    /\ lastCleanupTime = InitialCleanupTime
    /\ hs = [h \in Handlers |-> IdleHandler]
    /\ finished = IdleHandler
    /\ budget = 1
    /\ ticks = 0
    /\ cleanupLog = <<>>
    /\ probe = NoProbe

\* one before_agent_start event
NextRecall == \E event \in RecallEvents, outcome \in SearchOutcomes : BeforeAgentStart(event, outcome)

SpecRecall == InitRecall /\ [][NextRecall]_vars

\* the engine command of each tool
ToolCommand(name) ==
    IF name = "memory_delete" THEN "delete"
    ELSE IF name = "memory_list" THEN "list"
    ELSE IF name = "memory_memorize" THEN "memorize"
    ELSE IF name = "memory_categories" THEN "categories"
    ELSE "cleanup"

\* execute() of a tool: one engine call outside any try block, its result
\* handed to jsonResult
executeTool(name, outcome) ==
    LET result == callMemu(outcome)
    IN  [pc |-> IF result.settled = "rejected" THEN "raised" ELSE "returned",
         commands |-> <<[command |-> ToolCommand(name), args |-> <<>>]>>,
         context |-> NoContext, caught |-> FALSE]

\* a memory_cleanup tool that stamps the Maintenance Clock when it returns
ToolCallStampsClock(name, outcome) ==
    /\ name \in register(cfg).tools
    /\ budget > 0
    /\ budget' = budget - 1
    /\ probe' = [input |-> [event |-> NoPrompt, outcome |-> outcome, at |-> clock],
                 outputs |-> <<executeTool(name, outcome)>>]
    /\ lastCleanupTime' = IF name = "memory_cleanup" THEN clock ELSE lastCleanupTime
    /\ UNCHANGED <<cfg, clock, hs, finished, ticks, cleanupLog>>

\* the agent calls a registered tool, at the time `at`
ToolCall(name, outcome) ==
    /\ name \in register(cfg).tools
    /\ budget > 0
    /\ budget' = budget - 1
    /\ probe' = [input |-> [event |-> NoPrompt, outcome |-> outcome, at |-> clock],
                 outputs |-> <<executeTool(name, outcome)>>]
    /\ UNCHANGED <<cfg, clock, lastCleanupTime, hs, finished, ticks, cleanupLog>>

\* an event the host emits while no handler is registered for it
Unhandled == [pc |-> "unhandled", commands |-> <<>>, context |-> NoContext, caught |-> FALSE]

EmitBeforeAgentStart(event, outcome) ==
    \/ BeforeAgentStart(event, outcome)
    \/ /\ "before_agent_start" \notin register(cfg).hooks
       /\ budget > 0
       /\ budget' = budget - 1
       /\ probe' = [input |-> [event |-> event, outcome |-> outcome], outputs |-> <<Unhandled>>]
       /\ UNCHANGED <<cfg, clock, lastCleanupTime, hs, finished, ticks, cleanupLog>>

EmitAgentEnd(h, ev) ==
    \/ AgentEnd(h, ev)
    \/ /\ "agent_end" \notin register(cfg).hooks
       /\ FreeSlot(h)
       /\ budget > 0
       /\ budget' = budget - 1
       /\ finished' = [IdleHandler EXCEPT !.ev = ev, !.pc = "unhandled"]
       /\ UNCHANGED <<cfg, clock, lastCleanupTime, hs, ticks, cleanupLog, probe>>

\* the plugin configurations of the host specification
HostConfigs ==
    { Config(token, key, ar, ac, ci, Unset) :
        token \in {NoText, Some(<<>>), Some(TokenStatic)},
        key \in {NoText, Some(KeyGemini)},
        ar \in {FlagUnset, Flag(TRUE), Flag(FALSE)},
        ac \in {FlagUnset, Flag(FALSE)},
        ci \in {Unset, Some(1)} }

MaxHostEvents == 2

HostOutcomes == {Close(0, OutItemsOne, <<>>), Close(1, <<>>, MsgBoom), SpawnThrows}

InitHost ==
    /\ cfg \in HostConfigs
    /\ clock = ProcessStart
    /\ lastCleanupTime = InitialCleanupTime
    /\ hs = [h \in Handlers |-> IdleHandler]
    /\ finished = IdleHandler
    /\ budget = MaxHostEvents
    /\ ticks = 0
    /\ cleanupLog = <<>>
    /\ probe = NoProbe

\* the plugin is registered with a configuration; the host then emits
\* lifecycle events and the agent calls tools
NextHost ==
    \/ \E event \in {NoPrompt, Prompt(PromptLong)}, o \in HostOutcomes :
          EmitBeforeAgentStart(event, o)
    \/ \E ev \in OverlapEvents : EmitAgentEnd(1, ev)
    \/ \E o \in OverlapOutcomes : StoreSettles(1, o)
    \/ \E o \in OverlapOutcomes : CleanupSettles(1, o)
    \/ \E name \in ToolNames, o \in HostOutcomes : ToolCall(name, o)

SpecHost == InitHost /\ [][NextHost]_vars

\* messages that are pure JSON and fenced code, a message with white space
\* around it, a role in another spelling, blocks of other types with a text
\* and a text-typed block without one
TextJson ==
    <<"{", "\"", "n", "a", "m", "e", "\"", ":", " ", "\"", "M", "o", "k",
      "a", "\"", ",", " ", "\"", "k", "i", "n", "d", "\"", ":", " ", "\"",
      "d", "o", "g", "\"", ",", " ", "\"", "a", "g", "e", "\"", ":", " ",
      "3", ",", " ", "\"", "l", "i", "k", "e", "s", "\"", ":", " ", "[",
      "\"", "b", "a", "l", "l", "\"", ",", " ", "\"", "p", "a", "r", "k",
      "\"", "]", "}">>
TextFence ==
    <<"U+0060", "U+0060", "U+0060", "j", "s", "\n", "c", "o", "n", "s",
      "o", "l", "e", ".", "l", "o", "g", "(", "\"", "M", "o", "k", "a",
      " ", "i", "s", " ", "t", "h", "r", "e", "e", " ", "y", "e", "a", "r",
      "s", " ", "o", "l", "d", "\"", ")", "\n", "U+0060", "U+0060",
      "U+0060">>
UserJson == Obj("user", StringContent(TextJson))
AssistantFence == Obj("assistant", StringContent(TextFence))
UserPadded == Obj("user", StringContent(<<" ", "\n">> \o TextHi \o <<" ">>))
UserCapital == Obj("User", StringContent(TextMoka))
AssistantThinking ==
    Obj("assistant",
        ArrayContent(<<TypedBlock("thinking", TextHel), Block("text"), TextBlock(TextLo),
                       TypedBlock("tool_result", TextHi)>>))

\* the transcripts of SpecTurn: every sequence of at most MaxLen of these
TurnEntries ==
    { PrimEntry, UserCapital, UserPadded, UserBlank, UserJson, UserRecalled,
      AssistantThinking, AssistantFence }

TurnEvents == {Event(TRUE, TRUE, m) : m \in SeqsUpTo(TurnEntries, MaxLen)}

\* one agent_end event, its transcript drawn from TurnEvents
NextTurn ==
    \/ budget > 0 /\ \E ev \in TurnEvents : AgentEnd(1, ev)
    \/ \E o \in OverlapOutcomes : StoreSettles(1, o)
    \/ \E o \in OverlapOutcomes : CleanupSettles(1, o)

SpecTurn == InitT /\ [][NextTurn]_vars

\* the configurations of the host specification with time: both keys set
ClockConfigs ==
    { Config(Some(TokenStatic), Some(KeyGemini), ar, ac, ci, Unset) :
        ar \in {FlagUnset, Flag(FALSE)},
        ac \in {FlagUnset, Flag(FALSE)},
        ci \in {Unset, Some(0), Some(1)} }

InitClock ==
    /\ cfg \in ClockConfigs
    /\ clock = ProcessStart
    /\ lastCleanupTime = InitialCleanupTime
    /\ hs = [h \in Handlers |-> IdleHandler]
    /\ finished = IdleHandler
    /\ budget = MaxHostEvents + 1
    /\ ticks = 0
    /\ cleanupLog = <<>>
    /\ probe = NoProbe

\* the host emits lifecycle events one after another and the agent calls
\* tools, while time passes
NextClock ==
    \/ \E o \in OverlapOutcomes : EmitBeforeAgentStart(Prompt(PromptLong), o)
    \/ \E ev \in OverlapEvents : EmitAgentEnd(1, ev)
    \/ \E o \in OverlapOutcomes : StoreSettles(1, o)
    \/ \E o \in OverlapOutcomes : CleanupSettles(1, o)
    \/ \E name \in ToolNames, o \in OverlapOutcomes : ToolCall(name, o)
    \/ Tick

SpecClock == InitClock /\ [][NextClock]_vars

-----------------------------------------------------------------------------
(* Properties of the Maintenance Clock and the cleanup gate.               *)

\* the invocations the state holds: those in flight and the one that ended last
Invocations == {hs[h] : h \in Handlers} \cup {finished}

\* the configured interval is a positive number of hours
PositiveInterval == cfg.cleanupIntervalHours.set /\ cfg.cleanupIntervalHours.value > 0

\* C1: no step of another handler falls between a handler's read of the
\* Maintenance Clock at the due check and its write of the clock, so no two
\* handlers in flight have both found the gate due against the same clock
\* value and both issued a periodic cleanup command for that interval.
C1_NoTwoCleanupsForOneInterval ==
    \A g, h \in Handlers :
        (g # h /\ hs[g].pc = "cleanup" /\ hs[h].pc = "cleanup")
            => hs[g].sawLast # hs[h].sawLast

\* C2: when the gate was due and the cleanup command returns, with a result
\* that reports success or one that carries an error, the Maintenance Clock
\* becomes the now value read at the due check, the handler returns normally
\* and the gate evaluated at that now is not due any more.
C2_ClockStampedWhenCleanupReturns ==
    [][\A h \in Handlers :
          (hs[h].pc = "cleanup" /\ hs'[h].pc # "cleanup")
              => /\ hs[h].due
                 /\ lastCleanupTime' = hs[h].now
                 /\ hs'[h].pc = "idle"
                 /\ finished'.pc = "done"
                 /\ finished'.cleanup \in {"ok", "error"}
                 /\ ~gateDue(cleanupIntervalMs(cfg), hs[h].now, lastCleanupTime')]_vars

\* a cleanup command returned an error and the clock holds the now of its
\* due check
C2_Witness ==
    /\ finished.pc = "done"
    /\ finished.due
    /\ finished.cleanup = "error"
    /\ lastCleanupTime = finished.now
    /\ lastCleanupTime # InitialCleanupTime

\* C3: when agent_end events are handled one after another with a positive
\* interval, each periodic cleanup command after the first is issued more
\* than the interval after the previous one was issued, whatever the
\* results of the cleanup commands were.
C3_NoReissueInsideInterval ==
    PositiveInterval =>
        \A i \in 1..(Len(cleanupLog) - 1) :
            cleanupLog[i + 1].at - cleanupLog[i].at
                > cfg.cleanupIntervalHours.value * MsPerHour

\* the only cleanup command so far returned an error, and a later event
\* inside the interval evaluated the gate and issued nothing
C3_Witness ==
    /\ PositiveInterval
    /\ Len(cleanupLog) = 1
    /\ cleanupLog[1].result = "error"
    /\ finished.pc = "done"
    /\ finished.gateEvals = 1
    /\ ~finished.due
    /\ finished.sawLast = cleanupLog[1].at
    /\ finished.now - cleanupLog[1].at <= cfg.cleanupIntervalHours.value * MsPerHour

FirstGateChecks ==
    {r \in Invocations :
        PositiveInterval /\ r.gateEvals = 1 /\ r.sawLast = InitialCleanupTime}

\* C5 as the spec states it: with a positive interval of H hours and no
\* prior cleanup, the gate is due on an event exactly when that event occurs
\* at or after H hours from process start.
C5_DueOnlyAfterIntervalFromProcessStart ==
    \A r \in FirstGateChecks :
        r.due <=> (r.now - ProcessStart >= cfg.cleanupIntervalHours.value * MsPerHour)

\* C5: with a positive interval of H hours and no prior cleanup, the
\* Maintenance Clock being epoch zero, the gate is due on every event that
\* reaches the gate check at a Date.now() more than H hours past the epoch,
\* however short the time since process start.
C5_DueOnFirstGateCheck ==
    \A r \in FirstGateChecks :
        (r.now > cfg.cleanupIntervalHours.value * MsPerHour) => r.due

\* the gate was found due on an event handled at the moment of process start
C5_Witness ==
    /\ finished \in FirstGateChecks
    /\ finished.pc = "done"
    /\ finished.now = ProcessStart
    /\ finished.due
    /\ Len(cleanupLog) = 1

-----------------------------------------------------------------------------
(* Properties of the agent_end handler.                                    *)

\* C6: every agent_end event that is handled with autoCapture enabled and
\* reaches the capture step has the cleanup gate evaluated exactly once,
\* whether the capture step issued a store command, the Turn Extractor
\* abstained or the Capture Filter rejected the candidate.
C6_GateEvaluatedOncePerEvent ==
    (finished.pc = "done" /\ finished.cap # "skipped") => finished.gateEvals = 1

\* the outcomes of a capture step that failed
FailedCaptures == {"storeError", "threw"}

\* C7: when the capture step failed (the store result carries an error, or
\* an exception was thrown while capturing) the cleanup gate is evaluated
\* in that same event; and when the cleanup command fails the handler still
\* returns normally with the outcome its capture step already had.
C7_CaptureAndCleanupFailuresIndependent ==
    [][/\ \A h \in Handlers :
             (hs'[h].pc = "cleanup" /\ hs'[h].cap \in FailedCaptures)
                 => hs'[h].gateEvals = 1
       /\ (finished'.pc = "done" /\ finished'.cap \in FailedCaptures)
             => finished'.gateEvals = 1
       /\ \A h \in Handlers :
             (hs[h].pc = "cleanup" /\ hs'[h].pc # "cleanup")
                 => finished'.pc = "done" /\ finished'.cap = hs[h].cap
       /\ (finished'.cleanup \in {"error", "threw"})
             => finished'.pc = "done" /\ finished'.cap \notin {"none", "pending"}]_vars

\* a store command returned an error, the gate was evaluated and found due,
\* and the cleanup command failed as well
C7_Witness ==
    /\ finished.pc = "done"
    /\ finished.cap = "storeError"
    /\ finished.storeCalls = 1
    /\ finished.gateEvals = 1
    /\ finished.due
    /\ finished.cleanup = "error"

\* C8: no agent_end handler raises to the host, also when the transcript
\* holds entries that are not messages (null, strings, numbers, objects
\* without a role): every invocation completes normally.
C8_NoHandlerRaises == finished.pc # "raised"

-----------------------------------------------------------------------------
(* Properties of the Turn Extractor.                                       *)

\* the text of a transcript entry, for an entry that is an object
TextOf(e) == Trim(FlattenContent(e.content))

\* the positions of the qualifying messages of a transcript: objects with
\* role user or assistant whose text is not empty after trimming
Qualifying(entries) ==
    {i \in 1..Len(entries) :
        /\ entries[i].kind = "object"
        /\ entries[i].role \in {"user", "assistant"}
        /\ TextOf(entries[i]) # <<>>}

WithRole(entries, role) == {i \in Qualifying(entries) : entries[i].role = role}

\* some qualifying assistant message has a qualifying user message before it
HasTurn(entries) ==
    \E u \in WithRole(entries, "user"), a \in WithRole(entries, "assistant") : u < a

Last(S) == CHOOSE i \in S : \A j \in S : j <= i

LastAssistant(entries) == Last(WithRole(entries, "assistant"))

NearestUserBefore(entries, a) == Last({u \in WithRole(entries, "user") : u < a})

\* the invocations whose Turn Extractor ran
Extracted == {r \in Invocations : r.step.decision # "none"}

\* C9: when the qualifying messages of a successful transcript contain an
\* assistant message preceded by a user message, the Turn Extractor does
\* not abstain, the pair it selects is (nearest user message before the
\* last assistant message, last assistant message), and the candidate ends
\* with that pair rendered as "User: ...", newline, "Assistant: ...".
C9_TurnIsLastAssistantWithNearestUser ==
    \A r \in Extracted :
        HasTurn(r.ev.messages) =>
            LET entries == r.ev.messages
                a == LastAssistant(entries)
                u == NearestUserBefore(entries, a)
                step == r.step
                turn == UserLabel \o ColonSpace \o TextOf(entries[u]) \o <<"\n">>
                           \o AssistantLabel \o ColonSpace \o TextOf(entries[a])
            IN  /\ step.decision \in {"store", "rejected"}
                /\ step.messages[step.lastUserIdx + 1] =
                       [role |-> "user", content |-> TextOf(entries[u])]
                /\ step.messages[step.lastAssistantIdx + 1] =
                       [role |-> "assistant", content |-> TextOf(entries[a])]
                /\ Len(step.content) >= Len(turn)
                /\ SubSeq(step.content, Len(step.content) - Len(turn) + 1,
                          Len(step.content)) = turn

\* a transcript whose last qualifying message is a user message that
\* follows the assistant message of the selected pair
C9_Witness ==
    /\ finished \in Extracted
    /\ HasTurn(finished.ev.messages)
    /\ Len(finished.step.messages) = Len(finished.ev.messages)
    /\ finished.step.lastAssistantIdx < Len(finished.step.messages) - 1
    /\ finished.step.decision = "store"
    /\ finished.storeCalls = 1

\* C10: for a transcript with no qualifying assistant message that has a
\* qualifying user message before it (no qualifying messages, fewer than
\* two, only user messages, only assistant messages, or no user message
\* before the last assistant message) the Turn Extractor abstains and the
\* event issues no store command.
C10_AbstainIssuesNoStore ==
    \A r \in Invocations :
        (r.pc # "idle" /\ ~HasTurn(r.ev.messages)) =>
            /\ r.storeCalls = 0
            /\ r.pc \notin {"store"}
            /\ (r \in Extracted => (r.step.decision = "abstain" /\ r.cap = "abstain"))

\* a transcript of at least two qualifying messages with an assistant
\* message and a user message, the user message not before the assistant's
C10_Witness ==
    /\ finished \in Extracted
    /\ finished.cap = "abstain"
    /\ finished.storeCalls = 0
    /\ Len(finished.step.messages) >= 2
    /\ WithRole(finished.ev.messages, "assistant") # {}
    /\ WithRole(finished.ev.messages, "user") # {}

-----------------------------------------------------------------------------
(* Properties of the Context Window and the rendered candidate.            *)

\* the message the extractor makes of a qualifying transcript entry
MessageOf(e) == [role |-> e.role, content |-> TextOf(e)]

\* the k-th smallest element of a set of numbers
Nth(S, k) == CHOOSE x \in S : Cardinality({y \in S : y < x}) = k - 1

\* the positions in the transcript of the qualifying messages next before
\* position u, at most n of them
WindowBefore(entries, u, n) ==
    LET before == {i \in Qualifying(entries) : i < u}
    IN  {i \in before : Cardinality({j \in before : j > i}) < n}

\* the invocations whose Turn Extractor found a Turn
WithTurn == {r \in Extracted : r.step.decision # "abstain"}

\* C11: the Context Window holds at most 2 messages; they are the qualifying
\* messages at the indices [max(0, U-2), U) of the message list, that is
\* the (at most two) qualifying messages next before the Turn's user message
\* in transcript order; and the positions of the Turn's user message and of
\* its assistant message are outside that range.
C11_ContextWindowIsTwoBeforeUser ==
    \A r \in WithTurn :
        LET entries == r.ev.messages
            step == r.step
            U == step.lastUserIdx
            lo == IF U - 2 > 0 THEN U - 2 ELSE 0
            u == NearestUserBefore(entries, LastAssistant(entries))
            W == WindowBefore(entries, u, 2)
        IN  /\ Len(step.context) <= 2
            /\ Len(step.context) = U - lo
            /\ \A k \in 1..Len(step.context) : step.context[k] = step.messages[lo + k]
            /\ U \notin lo..(U - 1) /\ step.lastAssistantIdx \notin lo..(U - 1)
            /\ Len(step.context) = Cardinality(W)
            /\ \A k \in 1..Len(step.context) :
                  step.context[k] = MessageOf(entries[Nth(W, k)])

\* a Turn with three qualifying messages before its user message: the
\* window holds the two nearest and leaves the first out
C11_Witness ==
    /\ finished \in WithTurn
    /\ finished.step.lastUserIdx = 3
    /\ Len(finished.step.context) = 2
    /\ finished.step.context[1] = finished.step.messages[2]
    /\ finished.step.context[2] = finished.step.messages[3]
    /\ finished.step.messages[1] \notin {finished.step.context[1], finished.step.context[2]}

-----------------------------------------------------------------------------
(* Properties of markup stripping.                                         *)

\* C12: markup stripping is idempotent: stripMemoryTags applied to what
\* stripMemoryTags returned for a text returns that value again, also for
\* texts with nested, overlapping or partially formed markers.
C12_StripIsIdempotent ==
    Len(probe.outputs) = 2 => probe.outputs[2] = probe.outputs[1]

\* the beginning of the memory line the recall block of UserRecalled holds
InjectedContent == SubSeq(renderMemoryItem(RecalledItems[1]), 1, 30)

\* C13: the Capture Candidate handed to the Capture Filter, and sent in a
\* store command, holds no recall open marker and nothing of the content of
\* an injected recall block, wherever the block was in the transcript: in
\* the Turn or in a message of the Context Window.
C13_CandidateFreeOfRecallMarkup ==
    \A r \in WithTurn :
        /\ ~Contains(r.step.content, OpenTag, FALSE)
        /\ ~Contains(r.step.content, InjectedContent, FALSE)

-----------------------------------------------------------------------------
(* Properties of the Capture Filter.                                       *)

\* the seven checks of the Capture Filter, each TRUE when it rejects text:
\* raw length; a leading brace or code fence; stripped length; all white
\* space; a noise pattern; length without empty role lines; heartbeat
FilterChecks(text) ==
    LET stripped == stripMemoryTags(text)
    IN  << Len(text) < 20,
           (Len(text) >= 1 /\ text[1] = "{")
              \/ (Len(text) >= 3 /\ SubSeq(text, 1, 3) = CodeFence),
           Len(stripped) < 50,
           \A i \in 1..Len(stripped) : IsSpace(stripped[i]),
           \E k \in 1..Len(noisePatterns) :
              Contains(stripped, noisePatterns[k].lit, noisePatterns[k].ci),
           Len(Trim(RemoveEmptyRoles(stripped, 1))) < 50,
           HeartbeatOnly(stripped) >>

NoCheckRejects == <<FALSE, FALSE, FALSE, FALSE, FALSE, FALSE, FALSE>>

PassesAllChecks(text) == FilterChecks(text) = NoCheckRejects

\* C14: a store command is issued in an agent_end event only if the
\* event's Capture Candidate passed all seven checks of the Capture Filter;
\* a candidate that a check rejects leads to no store command.
C14_StoreOnlyAfterAllChecks ==
    \A r \in Invocations :
        IF r \in WithTurn
        THEN IF PassesAllChecks(r.step.content)
             THEN r.cap # "rejected"
             ELSE r.storeCalls = 0 /\ r.cap = "rejected" /\ r.pc = "done"
        ELSE r.storeCalls = 0 /\ r.pc # "store"

\* a candidate of more than 50 characters that only the noise check rejects
\* ended its event without a store command
C14_Witness ==
    /\ finished \in WithTurn
    /\ finished.cap = "rejected"
    /\ finished.storeCalls = 0
    /\ FilterChecks(finished.step.content)
          = <<FALSE, FALSE, FALSE, FALSE, TRUE, FALSE, FALSE>>

\* the noise phrases: those matched in any case and those matched as written
NoiseAnyCase ==
    {Noise01, Noise02, Noise03, Noise04, Noise05, Noise15, Noise16, Noise17,
     Noise18, Noise19}
NoiseAsWritten ==
    {Noise06, Noise07, Noise08, Noise09, Noise10, Noise11, Noise12, Noise13, Noise14}

HasNoise(s) ==
    \/ \E lit \in NoiseAnyCase : Contains(s, lit, TRUE)
    \/ \E lit \in NoiseAsWritten : Contains(s, lit, FALSE)

BeginsWithBraceOrFence(s) ==
    \/ Len(s) >= 1 /\ s[1] = "{"
    \/ Len(s) >= 3 /\ SubSeq(s, 1, 3) = CodeFence

\* the positions where the assistant line of a two-line exchange begins
AssistantLine == <<"\n">> \o AssistantLabel \o ColonSpace

ExchangeSplits(s) ==
    IF StartsWith(s, UserLabel \o ColonSpace)
    THEN {i \in 1..Len(s) : MatchAt(s, i, AssistantLine, FALSE)}
    ELSE {}

UserPart(s, i) == SubSeq(s, Len(UserLabel) + 3, i - 1)
AssistantPart(s, i) == SubSeq(s, i + Len(AssistantLine), Len(s))

\* the text is a heartbeat probe followed by its acknowledgment and nothing
\* else, in any case
SolelyHeartbeat(s) ==
    \E i \in ExchangeSplits(s) :
        /\ Contains(UserPart(s, i), HeartbeatWord, TRUE)
        /\ Len(AssistantPart(s, i)) = Len(HeartbeatOk)
        /\ MatchAt(AssistantPart(s, i), 1, HeartbeatOk, TRUE)

\* the text is a user line and an assistant line, both with content
MixedRole(s) ==
    \E i \in ExchangeSplits(s) : ~IsBlank(UserPart(s, i)) /\ ~IsBlank(AssistantPart(s, i))

\* C15: the Capture Filter rejects every text that is empty, has fewer than
\* 20 characters, begins with a brace or a code fence, has fewer than 50
\* characters after markup stripping, is all white space after stripping,
\* holds a noise pattern after stripping (a 200-character text with ENOENT),
\* or is a heartbeat probe and its acknowledgment and nothing else.
C15_FilterRejects ==
    probe.outputs # <<>> =>
        LET x == probe.input
            stripped == stripMemoryTags(x)
        IN  ( \/ x = <<>>
              \/ Len(x) < 20
              \/ BeginsWithBraceOrFence(x)
              \/ Len(stripped) < 50
              \/ IsBlank(stripped)
              \/ HasNoise(stripped)
              \/ SolelyHeartbeat(x) ) => probe.outputs = <<FALSE>>

\* a text of 200 characters of prose that ends in ENOENT was rejected
C15_Witness ==
    /\ probe.outputs = <<FALSE>>
    /\ Len(probe.input) = 200
    /\ probe.input = Filler(200 - Len(Noise12)) \o Noise12

\* C16: the Capture Filter admits every mixed-role exchange (a user line and
\* an assistant line, other than a bare heartbeat probe and acknowledgment)
\* whose markup-stripped text has at least 50 characters, holds no noise
\* pattern and does not begin with a brace or a code fence.
C16_FilterAdmitsExchange ==
    probe.outputs # <<>> =>
        LET x == probe.input
            stripped == stripMemoryTags(x)
        IN  ( /\ MixedRole(x)
              /\ ~SolelyHeartbeat(x)
              /\ Len(stripped) >= 50
              /\ ~HasNoise(stripped)
              /\ ~BeginsWithBraceOrFence(x) ) => probe.outputs = <<TRUE>>

-----------------------------------------------------------------------------
(* Properties of the rendered candidate.                                   *)

FirstChars(s, n) == IF Len(s) <= n THEN s ELSE SubSeq(s, 1, n)

LabelOf(m) ==
    IF m.role = "user" THEN <<"U", "s", "e", "r">>
    ELSE <<"A", "s", "s", "i", "s", "t", "a", "n", "t">>

\* one line of the context block: role label, first 100 characters, ellipsis
PreviewLine(m) == LabelOf(m) \o <<":", " ">> \o FirstChars(m.content, 100) \o <<".", ".", ".">>

\* one line of the Turn: role label and the whole content
FullLine(m) == LabelOf(m) \o <<":", " ">> \o m.content

RECURSIVE PreviewLines(_)
PreviewLines(ctx) ==
    IF Len(ctx) = 1 THEN PreviewLine(ctx[1])
    ELSE PreviewLine(ctx[1]) \o <<"\n">> \o PreviewLines(Tail(ctx))

\* the candidate the claim describes for a Context Window and a Turn
Rendered(ctx, user, assistant) ==
    (IF ctx = <<>> THEN <<>>
     ELSE ContextOpen \o PreviewLines(ctx) \o <<")", "\n", "\n">>)
    \o FullLine(user) \o <<"\n">> \o FullLine(assistant)

HasMarkup(messages) ==
    \E i \in 1..Len(messages) : Contains(messages[i].content, OpenTag, FALSE)

HiHello ==
    << [role |-> "user", content |-> <<"h", "i">>],
       [role |-> "assistant", content |-> <<"h", "e", "l", "l", "o">>] >>

\* C17: the candidate of a transcript without recall markup is the context
\* block (when the Context Window is not empty: a labelled block with one
\* line per context message, made of the role label, the first 100
\* characters and an ellipsis, then a blank line) followed by the Turn as
\* the two lines "User: <content>" and "Assistant: <content>" with the whole
\* content; for the transcript hi / hello the candidate is exactly those two
\* lines, the filter rejects it and the event makes no engine call.
C17_CandidateRendering ==
    \A r \in WithTurn :
        LET step == r.step
            user == step.messages[step.lastUserIdx + 1]
            assistant == step.messages[step.lastAssistantIdx + 1]
        IN  /\ ~HasMarkup(step.messages) =>
                  step.content = Rendered(step.context, user, assistant)
            /\ step.messages = HiHello =>
                  /\ step.content
                        = <<"U", "s", "e", "r", ":", " ", "h", "i", "\n", "A", "s", "s",
                            "i", "s", "t", "a", "n", "t", ":", " ", "h", "e", "l", "l", "o">>
                  /\ r.cap = "rejected"
                  /\ r.pc = "done"
                  /\ r.storeCalls = 0
                  /\ r.gateEvals = 0
                  /\ r.cleanup = "none"

\* a Turn whose user message has more than 100 characters, with a context
\* of two messages of which one has more than 100 characters: the context
\* line is cut and the Turn is whole
C17_Witness ==
    /\ finished \in WithTurn
    /\ ~HasMarkup(finished.step.messages)
    /\ Len(finished.step.context) = 2
    /\ Len(finished.step.context[1].content) > 100
    /\ Len(finished.step.messages[finished.step.lastUserIdx + 1].content) > 100
    /\ finished.storeCalls = 1

-----------------------------------------------------------------------------
(* Properties of the Engine Gateway.                                       *)

\* the call whose promise has settled: what the process did and the result
Called == probe.outputs # <<>>
Outcome == probe.input
Result == probe.outputs[1]

ExitedWithCode(n) ==
    <<"P", "r", "o", "c", "e", "s", "s", " ", "e", "x", "i", "t", "e", "d", " ",
      "w", "i", "t", "h", " ", "c", "o", "d", "e", " ">> \o NumberToString(n)

\* C18: for every engine call whose process exits with a non-zero code the
\* result is {error: E}, E being the captured stderr when it is not empty
\* and else a generic message that names the exit code; the result does not
\* depend on stdout, which is not parsed.
C18_NonZeroExitGivesError ==
    (Called /\ Outcome.kind = "close" /\ Outcome.code # 0) =>
        /\ Result.settled = "resolved"
        /\ Result.value
              = ErrorResult(IF Outcome.stderr # <<>> THEN Outcome.stderr
                            ELSE ExitedWithCode(Outcome.code))

\* a process that wrote a JSON value to stdout and nothing to stderr and
\* exited with code 1: the result is the generic message
C18_Witness ==
    /\ Called
    /\ Outcome = Close(1, OutSuccess, <<>>)
    /\ Result.value = ErrorResult(ExitedWithCode(1))

FailedToParse(raw) ==
    <<"F", "a", "i", "l", "e", "d", " ", "t", "o", " ", "p", "a", "r", "s", "e", " ",
      "o", "u", "t", "p", "u", "t", ":", " ">> \o raw

\* the result the gateway gives for exit code 0, for a parse-failure message
ZeroExitResult(message) ==
    LET parsed == JsonParse(Outcome.stdout)
    IN  /\ Result.settled = "resolved"
        /\ Result.value = IF parsed.ok THEN parsed.value ELSE ErrorResult(message)

\* C19 as stated: for every engine call whose process exits with code 0 the
\* result is the JSON value stdout parses to, unexamined, and when stdout
\* does not parse it is {error: "failed to parse output: <raw output>"}.
C19_ZeroExitParsesOrReportsLowercase ==
    (Called /\ Outcome.kind = "close" /\ Outcome.code = 0) =>
        ZeroExitResult(<<"f", "a", "i", "l", "e", "d", " ", "t", "o", " ", "p", "a", "r",
                         "s", "e", " ", "o", "u", "t", "p", "u", "t", ":", " ">>
                          \o Outcome.stdout)

\* C19 as amended: the same, the message being
\* "Failed to parse output: <raw output>" with a capital F.
C19_ZeroExitParsesOrReports ==
    (Called /\ Outcome.kind = "close" /\ Outcome.code = 0) =>
        ZeroExitResult(FailedToParse(Outcome.stdout))

\* a process that wrote "not json" and exited with code 0
C19_Witness ==
    /\ Called
    /\ Outcome = Close(0, OutNotJson, <<>>)
    /\ Result.value = ErrorResult(FailedToParse(OutNotJson))

\* the engine process failed: it could not be spawned, exited with a
\* non-zero code, or wrote an stdout that does not parse
EngineFailure(o) ==
    \/ o.kind \in {"throws", "error"}
    \/ o.kind = "close" /\ (o.code # 0 \/ ~JsonParse(o.stdout).ok)

\* C20: every engine call completes with a value and never rejects or
\* throws to its caller; every engine-process failure gives a result of the
\* shape {error: string}; a spawn failure reported by the "error" event
\* gives {error: <spawn error message>}.
C20_FailuresNormalized ==
    Called =>
        /\ Result.settled = "resolved"
        /\ EngineFailure(Outcome) =>
              Result.value.type = "object" /\ Result.value.hasError
        /\ Outcome.kind = "error" => Result.value = ErrorResult(Outcome.stderr)

-----------------------------------------------------------------------------
(* Properties of the Recall Injector.                                      *)

\* the before_agent_start event that was handled, how its search process
\* ended and what the handler did
RecallDone == probe.outputs # <<>>
RecallEvent == probe.input.event
RecallRun == probe.outputs[1]

\* the configured result limit as the command carries it
LimitText ==
    IF cfg.recallTopK.set THEN NumberToString(cfg.recallTopK.value) ELSE <<"3">>

\* C21: for every before_agent_start event whose prompt is absent or has
\* fewer than 10 characters the handler issues no search command and
\* returns no context; for every other prompt it issues exactly one search
\* command, which carries the prompt and the configured result limit
\* (recallTopK, 3 when not configured).
C21_SearchOnlyForLongPrompts ==
    RecallDone =>
        IF ~RecallEvent.hasPrompt \/ Len(RecallEvent.prompt) < 10
        THEN RecallRun.commands = <<>> /\ ~RecallRun.context.present
        ELSE RecallRun.commands
                = <<[command |-> "search", args |-> <<RecallEvent.prompt, LimitText>>]>>

\* a prompt of exactly 10 characters with recallTopK = 5: one search
\* command with the prompt and "5"
C21_Witness ==
    /\ RecallDone
    /\ Len(RecallEvent.prompt) = 10
    /\ cfg.recallTopK = Some(5)
    /\ Len(RecallRun.commands) = 1
    /\ RecallRun.commands[1].args = <<RecallEvent.prompt, <<"5">>>>

\* the lines of a text: the pieces between its line feeds
LineFeeds(s) == {i \in 1..Len(s) : s[i] = "\n"}

SplitLines(s) ==
    LET feeds == LineFeeds(s)
        n == Cardinality(feeds) + 1
    IN  [k \in 1..n |->
           SubSeq(s, IF k = 1 THEN 1 ELSE Nth(feeds, k - 1) + 1,
                     IF k = n THEN Len(s) ELSE Nth(feeds, k) - 1)]

ItemLine(item) == <<"-", " ", "[">> \o item.type \o <<"]", " ">> \o item.summary

\* the Engine Result of the search command, when the call returned one
SearchResult == callMemu(probe.input.outcome)

WellFormedItems(v) ==
    /\ v.items.kind = "array"
    /\ \A i \in 1..Len(v.items.list) : ~v.items.list[i].isNull

\* C22: when the search result carries an error or has an absent or empty
\* item list the handler returns no context; otherwise it returns one
\* context string whose lines are the open delimiter, the label, one line
\* "- [type] summary" per returned item in the engine's order (none dropped,
\* duplicated or reordered) and the close delimiter.
C22_ContextRendersEveryItem ==
    (RecallDone /\ RecallRun.commands # <<>> /\ SearchResult.settled = "resolved"
        /\ SearchResult.value.type = "object") =>
        LET v == SearchResult.value
        IN  IF v.hasError \/ v.items.kind = "absent"
               \/ (v.items.kind = "array" /\ v.items.list = <<>>)
            THEN ~RecallRun.context.present
            ELSE WellFormedItems(v) =>
                   LET lines == SplitLines(RecallRun.context.text)
                       n == Len(v.items.list)
                   IN  /\ RecallRun.context.present
                       /\ Len(lines) = n + 3
                       /\ lines[1] = OpenTag
                       /\ lines[n + 3] = CloseTag
                       /\ \A k \in 1..n : lines[k + 2] = ItemLine(v.items.list[k])

\* a search that returned three items: the context has their three lines
\* in the engine's order
C22_Witness ==
    /\ RecallDone
    /\ RecallRun.context.present
    /\ SearchResult.value.items.list = <<ItemTrip, ItemDog, ItemTea>>
    /\ SubSeq(SplitLines(RecallRun.context.text), 3, 5)
          = <<ItemLine(ItemTrip), ItemLine(ItemDog), ItemLine(ItemTea)>>

\* the search failed: the call threw, returned an error result, or returned
\* a value that is no well-formed result object
RecallFailure ==
    \/ SearchResult.settled = "rejected"
    \/ SearchResult.value.type # "object"
    \/ SearchResult.value.hasError
    \/ SearchResult.value.items.kind = "other"
    \/ ~WellFormedItems(SearchResult.value) /\ SearchResult.value.items.kind = "array"

\* C23: any failure during recall (an engine error result, a malformed
\* result such as a JSON value that is no object, a thrown exception) makes
\* the before_agent_start handler return no context, and the handler
\* returns normally to the host.
C23_RecallFailureGivesNoContext ==
    RecallDone =>
        /\ RecallRun.pc = "returned"
        /\ (RecallRun.commands # <<>> /\ RecallFailure) => ~RecallRun.context.present

\* the search returned JSON null: the handler's catch clause ran and the
\* handler returned no context
C23_Witness ==
    /\ RecallDone
    /\ probe.input.outcome = Close(0, OutNull, <<>>)
    /\ RecallRun.caught
    /\ RecallRun.pc = "returned"
    /\ ~RecallRun.context.present

-----------------------------------------------------------------------------
(* Properties of the Credential Resolver.                                  *)

ResolverDone == probe.outputs # <<>>
TheStore == probe.input.store
StaticFallback == probe.input.staticToken
ResolverRun == probe.outputs[1]

\* the profiles of the store in storage order, none when the store gives none
StoredProfiles ==
    IF TheStore.kind = "json" /\ TheStore.type = "object" /\ TheStore.hasProfiles
    THEN TheStore.entries ELSE <<>>

WithToken(e) == ~e.profile.isNull /\ e.profile.token.set /\ Len(e.profile.token.value) > 0

\* the positions of the profile lastGood.anthropic names, if it has a token
NamedByLastGood ==
    IF TheStore.kind = "json" /\ TheStore.type = "object"
       /\ TheStore.lastGood.kind = "object" /\ TheStore.lastGood.anthropic.set
    THEN {i \in 1..Len(StoredProfiles) :
            StoredProfiles[i].id = TheStore.lastGood.anthropic.value
            /\ WithToken(StoredProfiles[i])}
    ELSE {}

\* the positions of the profiles whose identifier starts with "anthropic:"
\* and that have a token
AnthropicProfiles ==
    {i \in 1..Len(StoredProfiles) :
        /\ Len(StoredProfiles[i].id) >= 10
        /\ SubSeq(StoredProfiles[i].id, 1, 10)
              = <<"a", "n", "t", "h", "r", "o", "p", "i", "c", ":">>
        /\ WithToken(StoredProfiles[i])}

\* C24: the Credential Resolver returns the token of the profile named by
\* lastGood.anthropic when that profile exists and has a token; otherwise
\* the token of the first profile, in storage order, whose identifier
\* starts with "anthropic:" and that has a token; otherwise the static
\* fallback.
C24_ResolverOrder ==
    ResolverDone =>
        ResolverRun.value =
            IF NamedByLastGood # {}
            THEN StoredProfiles[CHOOSE i \in NamedByLastGood : TRUE].profile.token
            ELSE IF AnthropicProfiles # {}
            THEN StoredProfiles[CHOOSE i \in AnthropicProfiles :
                                   \A j \in AnthropicProfiles : i <= j].profile.token
            ELSE StaticFallback

\* lastGood names the second of two anthropic profiles with a token: the
\* resolver returned the second profile's token
C24_Witness ==
    /\ ResolverDone
    /\ NamedByLastGood = {2}
    /\ 1 \in AnthropicProfiles
    /\ ResolverRun.value = StoredProfiles[2].profile.token
    /\ ResolverRun.value # StoredProfiles[1].profile.token

\* C25: the Credential Resolver never raises; when the profile store is
\* missing, unreadable or malformed it returns the static fallback; and it
\* leaves the store as it found it.
C25_ResolverNeverRaises ==
    ResolverDone =>
        /\ ResolverRun.pc = "returned"
        /\ ResolverRun.storeAfter = TheStore
        /\ (TheStore.kind \in {"missing", "unreadable", "malformed"}
              \/ (TheStore.kind = "json" /\ TheStore.type # "object"))
              => ResolverRun.value = StaticFallback

\* the store is no JSON text and the resolver returned the static token
C25_Witness ==
    /\ ResolverDone
    /\ TheStore.kind = "malformed"
    /\ StaticFallback = Some(TokenStatic)
    /\ ResolverRun.pc = "returned"
    /\ ResolverRun.value = Some(TokenStatic)

-----------------------------------------------------------------------------
(* Properties of registration and of the feature toggles.                  *)

FiveTools ==
    {"memory_delete", "memory_list", "memory_memorize", "memory_categories", "memory_cleanup"}

RecallOff == cfg.autoRecall.set /\ cfg.autoRecall.value = FALSE
CaptureOff == cfg.autoCapture.set /\ cfg.autoCapture.value = FALSE

\* C26: with a plugin configuration that sets geminiApiKey and leaves
\* anthropicToken out (to be resolved from the profile store) registration
\* completes: the five tools are registered, and so are the recall hook and
\* the capture hook unless their toggle is false.
C26_GeminiKeyAloneRegisters ==
    (~cfg.anthropicToken.set /\ cfg.geminiApiKey.set /\ cfg.geminiApiKey.value # <<>>) =>
        /\ register(cfg).tools = FiveTools
        /\ ~RecallOff => "before_agent_start" \in register(cfg).hooks
        /\ ~CaptureOff => "agent_end" \in register(cfg).hooks

\* both keys are configured
KeysConfigured ==
    /\ cfg.anthropicToken.set /\ cfg.anthropicToken.value # <<>>
    /\ cfg.geminiApiKey.set /\ cfg.geminiApiKey.value # <<>>

\* C28: when autoRecall is false no lifecycle event issues a search command
\* or injects context; when autoCapture is false no lifecycle event issues
\* a store command; and in both cases, the keys being configured, the five
\* tools are registered and a tool call issues its engine command.
C28_TogglesDisableHooksOnly ==
    /\ RecallOff =>
          (probe.outputs # <<>> =>
              /\ \A k \in 1..Len(probe.outputs[1].commands) :
                    probe.outputs[1].commands[k].command # "search"
              /\ ~probe.outputs[1].context.present)
    /\ CaptureOff =>
          \A r \in Invocations : r.storeCalls = 0 /\ r.pc \notin {"store", "cleanup"}
    /\ ((RecallOff \/ CaptureOff) /\ KeysConfigured) =>
          /\ register(cfg).tools = FiveTools
          /\ \A name \in FiveTools :
                Len(executeTool(name, Close(0, OutSuccess, <<>>)).commands) = 1

\* both toggles are false and the keys are configured: a capturable
\* agent_end event and a before_agent_start event with a long prompt were
\* emitted, nothing was issued for them, and the tools are registered
C28_Witness ==
    /\ RecallOff /\ CaptureOff /\ KeysConfigured
    /\ finished.pc = "unhandled"
    /\ finished.ev = EvStore
    /\ probe.outputs = <<Unhandled>>
    /\ probe.input.event = Prompt(PromptLong)
    /\ register(cfg).tools = FiveTools

-----------------------------------------------------------------------------
(* Properties of the engine commands of one agent_end handler.             *)

\* C27: within one agent_end handler at most one store command and at most
\* one cleanup command are issued; while the store command is outstanding
\* the gate has not been evaluated and no cleanup command has been issued;
\* when the cleanup command is issued or outstanding the capture step has
\* its final outcome; so the handler has at most one engine call
\* outstanding.
C27_CommandsInSequence ==
    \A r \in Invocations :
        /\ r.storeCalls <= 1
        /\ r.gateEvals <= 1
        /\ r.pc = "store" =>
              r.storeCalls = 1 /\ r.cap = "pending" /\ r.gateEvals = 0 /\ r.cleanup = "none"
        /\ r.cleanup # "none" => r.gateEvals = 1 /\ r.due /\ r.cap \notin {"pending"}
        /\ r.pc = "cleanup" => r.cleanup = "pending" /\ r.cap # "pending"
        /\ r.cap = "pending" => r.pc = "store"

\* a handler issued a store command, which returned, and then a cleanup
\* command, which returned
C27_Witness ==
    /\ finished.pc = "done"
    /\ finished.storeCalls = 1
    /\ finished.cap = "stored"
    /\ finished.gateEvals = 1
    /\ finished.cleanup = "ok"

\* C29: an agent_end event with success false, or with an absent or empty
\* message list, issues no store command, however capturable its
\* transcript is.
C29_OnlySuccessfulTurnsCaptured ==
    \A r \in Invocations :
        (r.pc # "idle"
           /\ (~r.ev.success \/ ~r.ev.hasMessages \/ r.ev.messages = <<>>)) =>
            /\ r.storeCalls = 0
            /\ r.pc # "store"
            /\ r.cap \in {"none", "skipped"}

\* an event with success false whose transcript is stored when the event
\* reports success ended without a store command
C29_Witness ==
    /\ finished.pc = "done"
    /\ ~finished.ev.success
    /\ finished.ev.messages = EvStore.messages
    /\ captureStep(EvStore).decision = "store"
    /\ finished.cap = "skipped"
    /\ finished.storeCalls = 0

\* the latest periodic cleanup command returned an error and was issued by
\* an earlier event than the one that finished last
FailedBefore(log, last) ==
    /\ log # <<>>
    /\ log[Len(log)].result = "error"
    /\ last.logIdx # Len(log)

-----------------------------------------------------------------------------
(* Frame and order properties of the Maintenance Clock.                    *)

\* C32: the Maintenance Clock never decreases: every step, also of
\* overlapping agent_end handlers whose cleanup commands return in another
\* order than they were issued, leaves lastCleanupTime at least as large as
\* it was.
C32_ClockNeverDecreases == [][lastCleanupTime' >= lastCleanupTime]_vars

\* the gate time of the periodic cleanup command that returned last, or
\* the initial value of the clock when none has returned
LastPeriodicStamp ==
    LET returned == {i \in 1..Len(cleanupLog) : cleanupLog[i].result # "pending"}
    IN  IF returned = {} THEN InitialCleanupTime ELSE cleanupLog[Last(returned)].at

\* the tool call the agent made last was memory_cleanup and it returned
ManualCleanupReturned ==
    /\ probe.outputs # <<>>
    /\ probe.outputs[1].pc = "returned"
    /\ probe.outputs[1].commands = <<[command |-> "cleanup", args |-> <<>>]>>

\* C33: lastCleanupTime changes only in the step in which the periodic
\* cleanup command of an agent_end handler returns: before_agent_start
\* events, the capture step, a gate check that is not due, the passing of
\* time and every tool call leave it unchanged; so the clock is always the
\* gate time of the last returned periodic cleanup, and a manual
\* memory_cleanup does not postpone the next periodic one.
C33_ClockWrittenOnlyByPeriodicCleanup ==
    /\ [][lastCleanupTime' # lastCleanupTime =>
            \E h \in Handlers :
                /\ hs[h].pc = "cleanup"
                /\ hs'[h].pc = "idle"
                /\ finished'.cleanup \in {"ok", "error"}
                /\ lastCleanupTime' = hs[h].now]_vars
    /\ [](lastCleanupTime = LastPeriodicStamp)

\* with an interval of one hour: a periodic cleanup, one hour later a manual
\* memory_cleanup, and one hour after that an agent_end event whose gate is
\* due and whose periodic cleanup returned
C33_Witness ==
    /\ cfg.cleanupIntervalHours = Some(1)
    /\ ManualCleanupReturned
    /\ Len(cleanupLog) = 2
    /\ cleanupLog[1].result = "ok"
    /\ probe.input.at = cleanupLog[1].at + TickMs
    /\ cleanupLog[2].at = probe.input.at + TickMs
    /\ finished.due /\ finished.cleanup = "ok"
    /\ lastCleanupTime = cleanupLog[2].at

\* C34: when autoCapture is false no periodic cleanup command is ever
\* issued, whatever cleanupIntervalHours is and however much time passes:
\* the gate is never evaluated and the clock keeps its initial value.
C34_NoPeriodicCleanupWithoutCapture ==
    CaptureOff =>
        /\ cleanupLog = <<>>
        /\ lastCleanupTime = InitialCleanupTime
        /\ \A r \in Invocations :
              r.gateEvals = 0 /\ r.cleanup = "none" /\ r.pc # "cleanup"

\* autoCapture is false and the interval is one hour: every clock advance
\* of the model has happened, more than the interval has passed since the
\* clock value, agent_end events were emitted, and no cleanup was issued
C34_Witness ==
    /\ CaptureOff
    /\ cfg.cleanupIntervalHours = Some(1)
    /\ ticks = MaxTicks
    /\ gateDue(cleanupIntervalMs(cfg), clock, lastCleanupTime)
    /\ finished.pc = "unhandled"
    /\ finished.ev = EvStore
    /\ budget = 0
    /\ cleanupLog = <<>>

-----------------------------------------------------------------------------
(* Properties of the gateway promise.                                      *)

\* C35: each gateway call yields exactly one result, the one computed for
\* the first close or error event of the process: after every event that
\* fired, the promise is resolved with the result of the first event and
\* the caller was resumed exactly once; a later event neither changes nor
\* repeats the result.
C35_FirstEventFixesResult ==
    \A k \in 1..Len(probe.outputs) :
        /\ probe.outputs[k].state = "resolved"
        /\ probe.outputs[k].value = callMemu(probe.input[1]).value
        /\ probe.outputs[k].deliveries = 1

\* spawn failed: the process emitted error and then close with a non-zero
\* code, whose listener computed another result
C35_Witness ==
    /\ Len(probe.input) = 2
    /\ Len(probe.outputs) = 2
    /\ probe.input[1] = SpawnError(MsgEnoent)
    /\ probe.input[2].kind = "close" /\ probe.input[2].code # 0
    /\ callMemu(probe.input[2]).value # callMemu(probe.input[1]).value
    /\ probe.outputs[2].value = ErrorResult(MsgEnoent)

-----------------------------------------------------------------------------
(* Termination of the handlers.                                            *)

\* the handler in slot h awaits an engine call
Awaiting(h) == hs[h].pc \in {"store", "cleanup"}

\* C31: a handler that awaits an engine call moves only in the step in
\* which its own engine process ends: no passing of time and no step of
\* another handler ends the wait; when every spawned process eventually
\* exits, every handler has ended from some point on; and while
\* handlers await their processes the host can still have a further
\* agent_end event handled.
C31_HandlersWaitForTheirProcess ==
    /\ [][\A h \in Handlers :
            (Awaiting(h) /\ hs'[h] # hs[h]) =>
                /\ ProcessEnds(h)
                /\ clock' = clock]_vars
    /\ <>[](\A h \in Handlers : ~Awaiting(h))
    /\ []((budget > 0 /\ "agent_end" \in register(cfg).hooks
              /\ \E g \in Handlers : hs[g].pc = "idle") =>
            ENABLED (\E g \in Handlers : AgentEnd(g, EvStore)))

\* the process of the first handler has not ended after every clock
\* advance of the model, and meanwhile a later agent_end event was handled
\* to its end, cleanup included
C31_Witness ==
    /\ hs[1].pc = "store"
    /\ ticks = MaxTicks
    /\ finished.pc = "done"
    /\ finished.storeCalls = 1
    /\ finished.cleanup \in {"ok", "error"}

-----------------------------------------------------------------------------
(* Properties of the candidate's first characters and of flattening.       *)

\* the invocations for which a candidate was rendered
WithCandidate == {r \in Extracted : r.step.decision \in {"store", "rejected"}}

\* C36: every candidate the Turn Extractor hands to the Capture Filter,
\* after markup stripping, begins with "User:" or with the opener of the
\* context block, whatever the messages contain; so it begins neither with
\* "{" nor with a code fence, and the filter's check for these never
\* rejects it.
C36_CandidateBeginsWithLabel ==
    \A r \in WithCandidate :
        /\ \/ StartsWith(r.step.content, <<"U", "s", "e", "r", ":">>)
           \/ StartsWith(r.step.content,
                         <<"(", "U+C774", "U+C804", " ", "U+B9E5", "U+B77D", ":">>)
        /\ ~StartsWith(r.step.content, <<"{">>)
        /\ ~StartsWith(r.step.content, <<"U+0060", "U+0060", "U+0060">>)

\* a turn whose user message is pure JSON and whose assistant message is
\* fenced code: the candidate begins with "User: {" and the filter admitted
\* it
C36_Witness ==
    /\ finished.pc = "done"
    /\ finished.ev.messages = <<UserJson, AssistantFence>>
    /\ StartsWith(finished.step.content, <<"U", "s", "e", "r", ":", " ", "{">>)
    /\ finished.step.decision = "store"
    /\ finished.storeCalls = 1

\* the flattened content of a transcript entry that is an object: the
\* string itself, or the texts of the blocks of type text in order
IsTextBlock(b) == b.kind = "object" /\ b.type = "text" /\ b.hasText
Flattened(e) ==
    IF e.content.kind = "string" THEN e.content.text
    ELSE IF e.content.kind = "array"
    THEN LET texts == SelectSeq(e.content.blocks, IsTextBlock)
         IN  Concat([i \in 1..Len(texts) |-> texts[i].text])
    ELSE <<>>

\* the positions of a transcript that contribute a Message
Contributing(entries) ==
    {i \in 1..Len(entries) :
        /\ entries[i].kind = "object"
        /\ entries[i].role \in {"user", "assistant"}
        /\ ~IsBlank(Flattened(entries[i]))}

\* the k-th smallest element of a set of positions
Kth(S, k) == CHOOSE i \in S : Cardinality({j \in S : j <= i}) = k

\* C37: the Messages of a transcript are, in transcript order, exactly its
\* entries that are objects with role user or assistant and a flattened
\* content that is not empty after trimming; each Message has the entry's
\* role and its flattened content, trimmed; the flattened content is the
\* string content, or the texts of the text-typed blocks in order.
C37_MessageFlattening ==
    \A r \in Extracted :
        LET entries == r.ev.messages
            kept == Contributing(entries)
        IN  /\ Len(r.step.messages) = Cardinality(kept)
            /\ \A k \in 1..Len(r.step.messages) :
                  r.step.messages[k] =
                      [role |-> entries[Kth(kept, k)].role,
                       content |-> Trim(Flattened(entries[Kth(kept, k)]))]

\* a transcript with a user message with white space around it, an entry
\* of role User and an assistant message with blocks of other types that
\* have a text and a text-typed block without one: two Messages, "hi" and
\* "lo"
C37_Witness ==
    /\ finished \in Extracted
    /\ finished.ev.messages = <<UserPadded, UserCapital, AssistantThinking>>
    /\ finished.step.messages =
          <<[role |-> "user", content |-> <<"h", "i">>],
            [role |-> "assistant", content |-> <<"l", "o">>]>>

====
